---------------------------- MODULE Spec2Model ----------------------------
(***************************************************************************)
(* A model of the go-microservice repository (geospatial queries over      *)
(* French business, IRIS, commune and crime CSV files).                    *)
(*                                                                         *)
(* The module holds several state machines over one set of variables, one  *)
(* per component of the service:                                           *)
(*   SpecLoad    the competitor-financials loader (competition_service.go) *)
(*   SpecSearch  the business search (csv_service.go, models.go)           *)
(*   SpecIris    the zone aggregation GetIrisData (csv_service.go)         *)
(*   SpecHttp    the four HTTP handlers (handlers.go)                      *)
(*   SpecCrim    the criminality reducer (criminality_service.go)          *)
(* Each specification initialises the variables of the other components to *)
(* their idle value and leaves them unchanged.                             *)
(*                                                                         *)
(* Encodings.  float64 values that the code only adds, multiplies and      *)
(* divides are exact fractions [n, d] in lowest terms.  Coordinates are    *)
(* integers.  Polygons are axis-parallel rectangles [x1, y1, x2, y2].      *)
(* Strings the code indexes or trims are sequences of one-character        *)
(* strings.  A publication date is an integer: a positive day number for a *)
(* text time.Parse accepts, 0 for the empty string, -1 for any other text. *)
(***************************************************************************)
EXTENDS Integers, Sequences, FiniteSets, TLC

VARIABLES
    \* ---- competitor-financials loader (CompetitionService)
    loaderVersion,    \* "struct": lines 45-158, "map": lines 705-851
    csvRows,          \* the financial CSV after its header, in file order
    businesses,       \* the SIRETs of the matched businesses of the request
    sirets,           \* the lookup set built from businesses (struct version)
    pos,              \* 0: no load running; i > 0: next row to read
    competitionData,  \* s.competitionData: SIRET -> stored record
    loadResult,       \* "none", "ok" (returned nil), "err" (returned err)
    \* ---- business search (CSVService.SearchBusinesses)
    businessFile,     \* the business CSV after its header
    searchGeo,        \* the GeoJSON geometry handed to SearchBusinesses
    searchNaf,        \* the nafCode handed to SearchBusinesses
    searchResults,    \* the returned businesses, in order
    searchOutcome,    \* "none", "ok", "err", "panic"
    searchArtifact,   \* the results file of the search: "none", "written", "failed"
    loadedBusinesses, \* what loadBusinessesByNAF returned to SearchBusinesses
    \* ---- zone aggregation (CSVService.GetIrisData)
    irisGeo,          \* the GeoJSON geometry handed to GetIrisData
    irisData,         \* the zones loadIrisData returned, in file order
    communeFile,      \* the commune CSV after its header
    qpFile,           \* the special-zone CSV after its header
    irisPc,           \* position of GetIrisData
    workerPc,         \* zone index -> "ready", "done"
    inclusionPercentage, \* zone index -> the percentage its goroutine computed
    results,          \* the results channel (buffered, FIFO)
    resultsClosed,    \* close(results) happened
    response,         \* the IrisResponse under construction
    intersectingCommunes, \* set of commune codes of contributing zones
    intersectingZones,    \* the zone counter
    loadedCommunes,   \* loadCommuneData was called
    loadedQP,         \* loadQPData was called
    irisStatus,       \* HTTP status written by HandleIrisData (0: none)
    firstRun,         \* the response of the previous identical request
    irisArtifact,     \* the results file of the aggregation: "none", "written", "failed"
    cancelled,        \* the context of the aggregation request was cancelled
    \* ---- results artifacts of concurrent requests
    clock,            \* time.Now(), in ticks
    writers,          \* the requests that reach their artifact write
    fileNames,        \* request -> the file name it wrote to, or NoName
    files,            \* the results directory: file name -> request that wrote last
    \* ---- HTTP handlers
    request,          \* the request being handled
    httpPc,           \* "idle", "ready", "answered", "panic"
    httpStatus,       \* status written by the handler (0: none)
    decoded,          \* the handler decoded the body
    invoked,          \* the handler called the search or the aggregation
    usedFeature,      \* index of the feature whose geometry was used (0: none)
    handedGeo,        \* the geometry handed to the search or the aggregation
    serviceResult,    \* what the search or the aggregation returned: "none", "ok", "err"
    \* ---- criminality reducer
    crimCommunes,     \* the communes handed to CalculateCriminality
    departmentData,   \* the keys of the departmentData map of the call
    crimResponse,     \* the CriminalityResponse ("none" before the call)
    \* ---- competitor statistics
    competitors,      \* the matched businesses handed to GetCompetitionData
    competitionResponse, \* the CompetitionResponseByNAF of the call
    \* ---- polygon simplifier
    points,           \* the points handed to simplifyPolygon
    epsilon,          \* the tolerance handed to simplifyPolygon
    simplified        \* the points simplifyPolygon returned

loaderVars == <<loaderVersion, csvRows, businesses, sirets, pos,
                competitionData, loadResult>>
searchVars == <<businessFile, searchGeo, searchNaf, searchResults, searchOutcome,
                searchArtifact, loadedBusinesses>>
irisVars   == <<irisGeo, irisData, communeFile, qpFile, irisPc, workerPc,
                inclusionPercentage, results,
                resultsClosed, response, intersectingCommunes, intersectingZones,
                loadedCommunes, loadedQP, irisStatus, firstRun, irisArtifact>>
httpVars   == <<request, httpPc, httpStatus, decoded, invoked, usedFeature,
                handedGeo, serviceResult>>
crimVars   == <<crimCommunes, departmentData, crimResponse>>
compVars   == <<competitors, competitionResponse>>
simplifyVars == <<points, epsilon, simplified>>
cancelVars == <<cancelled>>
artifactVars == <<clock, writers, fileNames, files>>
vars == <<loaderVars, searchVars, irisVars, httpVars, crimVars, compVars,
          simplifyVars, cancelVars, artifactVars>>

----------------------------------------------------------------------------
(* Bounds of the model *)

MaxRows == 3          \* rows of the financial CSV
MaxBusinessRows == 2  \* rows of the business CSV
MaxZones == 2         \* IRIS zones loaded
MaxCommunes == 2      \* communes handed to the criminality reducer
MaxFeatures == 2      \* features of a FeatureCollection request
MaxCompetitors == 2   \* matched businesses handed to the competitor reducer
MaxPoints == 5        \* points of a ring handed to the simplifier
PoolSize == 1         \* hardware parallelism of the machine
MaxTicks == 3         \* ticks of the clock while artifacts are written
TicksPerSecond == 2   \* ticks of the clock in one second

----------------------------------------------------------------------------
(* Helpers: sequences, exact fractions *)

Range(s) == {s[i] : i \in 1..Len(s)}

SeqsUpTo(S, n) == UNION {[1..k -> S] : k \in 0..n}

Abs(x) == IF x < 0 THEN -x ELSE x

Min(a, b) == IF a < b THEN a ELSE b

Max(a, b) == IF a > b THEN a ELSE b

RECURSIVE GCD(_, _)
GCD(a, b) == IF b = 0 THEN a ELSE GCD(b, a % b)

\* the fraction n/d in lowest terms with a positive denominator (d # 0)
Frac(n, d) ==
    LET s == IF d < 0 THEN -1 ELSE 1
        g == GCD(Abs(n), Abs(d))
    IN  [n |-> (s * n) \div g, d |-> (s * d) \div g]

Zero == Frac(0, 1)

FInt(k) == Frac(k, 1)

FAdd(a, b) == Frac(a.n * b.d + b.n * a.d, a.d * b.d)

FMul(a, b) == Frac(a.n * b.n, a.d * b.d)

\* a / b for b # 0
FDiv(a, b) == Frac(a.n * b.d, a.d * b.n)

FLess(a, b) == a.n * b.d < b.n * a.d

FLeq(a, b) == a.n * b.d <= b.n * a.d

RECURSIVE FSum(_, _)
\* the sum of f[x] over the finite set S
FSum(f, S) ==
    IF S = {} THEN Zero
    ELSE LET x == CHOOSE y \in S : TRUE IN FAdd(f[x], FSum(f, S \ {x}))

----------------------------------------------------------------------------
(* Competitor-financials loader: competition_service.go                    *)

Sirens == {<<"1">>, <<"2">>}

NICs == {<<"7">>}

AllSirets == {sn[1] \o sn[2] : sn \in Sirens \X NICs}

\* publicationDate cells: -1 unparseable text, 0 empty, 1 and 2 valid dates
Dates == {-1, 0, 1, 2}

\* a row shorter than the header carries no usable field
ShortRow == [short |-> TRUE, siren |-> <<>>, nic |-> <<>>, publicationDate |-> 0]

FinancialRows ==
    {ShortRow} \cup
    [short : {FALSE}, siren : Sirens, nic : NICs, publicationDate : Dates]

\* the file: rows in any order; line is the row's own content (its position)
FinancialFiles ==
    {[i \in 1..Len(f) |->
        [short |-> f[i].short, siren |-> f[i].siren, nic |-> f[i].nic,
         publicationDate |-> f[i].publicationDate, line |-> i]]
     : f \in SeqsUpTo(FinancialRows, MaxRows)}

NoData == [present |-> FALSE, publicationDate |-> 0, line |-> 0]

\* models.BusinessData built from a record (the fields the claims read)
BusinessData(record) ==
    [present |-> TRUE, publicationDate |-> record.publicationDate,
     line |-> record.line]

\* time.Parse("2006-01-02", text) succeeds
ParseOk(date) == date > 0

\* publicationDateParsed.After(existingPublicationDate)
After(a, b) == a > b

LoaderIdle ==
    /\ loaderVersion = "struct"
    /\ csvRows = <<>>
    /\ businesses = {}
    /\ sirets = {}
    /\ pos = 0
    /\ competitionData = [s \in AllSirets |-> NoData]
    /\ loadResult = "none"

LoaderInit ==
    /\ loaderVersion \in {"struct", "map"}
    /\ csvRows \in FinancialFiles
    /\ businesses = {}
    /\ sirets = {}
    /\ pos = 0
    /\ competitionData = [s \in AllSirets |-> NoData]
    /\ loadResult = "none"

\* loadCompetitionData is entered: the file is opened, the header read and
\* (struct version) the lookup set built from the matched businesses
StartLoad ==
    /\ pos = 0
    /\ \E matched \in SUBSET AllSirets :
          /\ businesses' = matched
          /\ sirets' = matched
    /\ pos' = 1
    /\ loadResult' = "none"
    /\ UNCHANGED <<loaderVersion, csvRows, competitionData>>

\* the rows of the file that carry SIRET s in full
RowsOf(s) ==
    {i \in 1..Len(csvRows) :
        ~csvRows[i].short /\ csvRows[i].siren \o csvRows[i].nic = s}

\* one iteration of the read loop, struct version
\* "keep": the row is skipped by a continue; "store": it replaces the entry
StructDecision(record, siret) ==
    IF record.short THEN "keep"
    ELSE IF siret \notin sirets THEN "keep"
    ELSE LET existingData == competitionData[siret] IN
         IF existingData.present
         THEN IF ~ParseOk(record.publicationDate) THEN "keep"
              ELSE IF existingData.publicationDate # 0
                   THEN IF \/ ~ParseOk(existingData.publicationDate)
                           \/ ~After(record.publicationDate,
                                     existingData.publicationDate)
                        THEN "keep" ELSE "store"
                   ELSE "store"
         ELSE "store"

ReadRecordStruct ==
    /\ loaderVersion = "struct"
    /\ pos \in 1..Len(csvRows)
    /\ LET record == csvRows[pos]
           siret == record.siren \o record.nic
       IN  /\ sirets' = IF ~record.short /\ siret \in sirets
                        THEN sirets \ {siret} ELSE sirets
           /\ competitionData' =
                 IF StructDecision(record, siret) = "store"
                 THEN [competitionData EXCEPT ![siret] = BusinessData(record)]
                 ELSE competitionData
    /\ pos' = pos + 1
    /\ UNCHANGED <<loaderVersion, csvRows, businesses, loadResult>>

\* one iteration of the read loop, map version
\* "keep", "store", or "err" (the load returns the parse error)
MapDecision(record, siret) ==
    IF record.short THEN "keep"
    ELSE IF siret \notin businesses THEN "keep"
    ELSE IF ~competitionData[siret].present THEN "store"
    ELSE IF ~ParseOk(record.publicationDate) THEN "err"
    ELSE IF ~ParseOk(competitionData[siret].publicationDate) THEN "err"
    ELSE IF ~After(record.publicationDate, competitionData[siret].publicationDate)
         THEN "keep" ELSE "store"

ReadRecordMap ==
    /\ loaderVersion = "map"
    /\ pos \in 1..Len(csvRows)
    /\ LET record == csvRows[pos]
           siret == record.siren \o record.nic
           decision == MapDecision(record, siret)
       IN  /\ competitionData' =
                 IF decision = "store"
                 THEN [competitionData EXCEPT ![siret] = BusinessData(record)]
                 ELSE competitionData
           /\ pos' = IF decision = "err" THEN 0 ELSE pos + 1
           /\ loadResult' = IF decision = "err" THEN "err" ELSE loadResult
    /\ UNCHANGED <<loaderVersion, csvRows, businesses, sirets>>

\* reader.Read returns io.EOF: the loop breaks and the load returns nil
EndLoad ==
    /\ pos = Len(csvRows) + 1
    /\ pos' = 0
    /\ loadResult' = "ok"
    /\ UNCHANGED <<loaderVersion, csvRows, businesses, sirets, competitionData>>

----------------------------------------------------------------------------
(* Geometry: GeoJSON values and the simplefeatures predicates on rectangles *)

Rect(a, b, c, d) == [x1 |-> a, y1 |-> b, x2 |-> c, y2 |-> d]

\* the closed outer ring of a rectangle, as GeoJSON coordinates
RingOf(r) ==
    << <<r.x1, r.y1>>, <<r.x2, r.y1>>, <<r.x2, r.y2>>, <<r.x1, r.y2>>,
       <<r.x1, r.y1>> >>

PolygonGeo(r) == [type |-> "Polygon", coordinates |-> <<RingOf(r)>>]

\* the rectangle a ring of coordinate pairs describes
RectOfRing(ring) ==
    LET xs == {ring[i][1] : i \in 1..Len(ring)}
        ys == {ring[i][2] : i \in 1..Len(ring)}
    IN  Rect(CHOOSE x \in xs : \A z \in xs : x <= z,
             CHOOSE y \in ys : \A z \in ys : y <= z,
             CHOOSE x \in xs : \A z \in xs : x >= z,
             CHOOSE y \in ys : \A z \in ys : y >= z)

\* convertGeoJSONToGeometry: [kind |-> "ok", rect] | "err" | "panic"
\* Only coordinates[0] is read: inner rings are dropped.
convertGeoJSONToGeometry(geo) ==
    IF geo.type = "Polygon"
    THEN IF Len(geo.coordinates) = 0
         THEN [kind |-> "err", rect |-> Rect(0, 0, 0, 0)]
         ELSE LET coords == geo.coordinates[1] IN
              IF \E i \in 1..Len(coords) : Len(coords[i]) < 2
              THEN [kind |-> "panic", rect |-> Rect(0, 0, 0, 0)]
              ELSE IF Len(coords) = 0
              THEN [kind |-> "err", rect |-> Rect(0, 0, 0, 0)]
              ELSE [kind |-> "ok", rect |-> RectOfRing(coords)]
    ELSE \* neither a Polygon nor (in this model) a MultiPolygon
         [kind |-> "err", rect |-> Rect(0, 0, 0, 0)]

\* Geometry.Area
Area(r) == (r.x2 - r.x1) * (r.y2 - r.y1)

\* geom2.Intersects: the closed rectangles share a point
Intersects(a, b) ==
    a.x1 <= b.x2 /\ b.x1 <= a.x2 /\ a.y1 <= b.y2 /\ b.y1 <= a.y2

\* geom2.Equals
Equals(a, b) == a = b

\* geom2.Contains(a, b) for two polygons: b lies in a
Contains(a, b) ==
    a.x1 <= b.x1 /\ b.x2 <= a.x2 /\ a.y1 <= b.y1 /\ b.y2 <= a.y2

\* geom2.Intersection(a, b).Area()
IntersectionArea(a, b) ==
    Max(0, Min(a.x2, b.x2) - Max(a.x1, b.x1)) *
    Max(0, Min(a.y2, b.y2) - Max(a.y1, b.y1))

\* geom2.Contains(polygon, point): the point lies in the interior
ContainsPoint(r, x, y) == r.x1 < x /\ x < r.x2 /\ r.y1 < y /\ y < r.y2

----------------------------------------------------------------------------
(* Business search: csv_service.go, models.go                              *)
(* Longitudes and latitudes are integers in units of 2 * 10^-7 degree.     *)

\* "%f" prints 6 decimals: one printed step is 5 units
WktQuantum == 5

\* fmt.Sprintf("%f", v) followed by geom2.UnmarshalWKT: v rounded to the
\* nearest multiple of the printed step (no value of the model is a tie)
FormatF(v) == ((v + (WktQuantum \div 2)) \div WktQuantum) * WktQuantum

NafCodes == {"56.30Z", "47.11B"}

\* rows that pass every test of the loader
GoodBusinessRows ==
    [len : {21}, naf : NafCodes, name : {"bar"}, lngOk : {TRUE},
     lng : {8, 10, 15, 22}, latOk : {TRUE}, lat : {8, 15}]

\* rows with one defect each
DefectBusinessRows ==
    UNION {{[len |-> 19, naf |-> c, name |-> "bar", lngOk |-> TRUE, lng |-> 15,
             latOk |-> TRUE, lat |-> 15],
            [len |-> 20, naf |-> c, name |-> "bar", lngOk |-> TRUE, lng |-> 15,
             latOk |-> TRUE, lat |-> 15],
            [len |-> 21, naf |-> c, name |-> "", lngOk |-> TRUE, lng |-> 15,
             latOk |-> TRUE, lat |-> 15],
            [len |-> 21, naf |-> c, name |-> "bar", lngOk |-> FALSE, lng |-> 0,
             latOk |-> TRUE, lat |-> 15],
            [len |-> 21, naf |-> c, name |-> "bar", lngOk |-> TRUE, lng |-> 15,
             latOk |-> FALSE, lat |-> 0]} : c \in NafCodes}

BusinessRows == GoodBusinessRows \cup DefectBusinessRows

SearchRects == {Rect(a, a, b, b) : a \in {9, 10}, b \in {20, 21}}

SearchGeos ==
    {PolygonGeo(r) : r \in SearchRects} \cup
    {[type |-> "Polygon", coordinates |-> <<>>],
     [type |-> "Point", coordinates |-> <<>>]}

\* the fate of one record in loadBusinessesByNAF
RowFate(record, nafCode) ==
    IF record.len < 20 THEN "skip"
    ELSE IF record.naf # nafCode THEN "skip"
    ELSE IF record.name = "" THEN "skip"
    ELSE IF ~record.lngOk THEN "skip"
    ELSE IF ~record.latOk THEN "skip"
    ELSE IF record.len <= 20 THEN "panic"   \* record[20] of the address
    ELSE "append"

\* models.Business built from a record; line is the position in the file
Business(record, i) ==
    [Name |-> record.name, NAFCode |-> record.naf, Latitude |-> record.lat,
     Longitude |-> record.lng, line |-> i]

RECURSIVE LoadFrom(_, _, _)
LoadFrom(rows, nafCode, i) ==
    IF i > Len(rows) THEN [kind |-> "ok", list |-> <<>>]
    ELSE LET fate == RowFate(rows[i], nafCode) IN
         IF fate = "panic" THEN [kind |-> "panic", list |-> <<>>]
         ELSE LET rest == LoadFrom(rows, nafCode, i + 1) IN
              IF rest.kind = "panic" THEN rest
              ELSE IF fate = "append"
                   THEN [kind |-> "ok",
                         list |-> <<Business(rows[i], i)>> \o rest.list]
                   ELSE rest

loadBusinessesByNAF(rows, nafCode) == LoadFrom(rows, nafCode, 1)

\* the test of SpatialIndex.Query for one business
QueryKeeps(rect, business) ==
    ContainsPoint(rect, FormatF(business.Longitude), FormatF(business.Latitude))

RECURSIVE QueryFrom(_, _, _)
QueryFrom(rect, list, i) ==
    IF i > Len(list) THEN <<>>
    ELSE (IF QueryKeeps(rect, list[i]) THEN <<list[i]>> ELSE <<>>)
         \o QueryFrom(rect, list, i + 1)

\* SpatialIndex.Query
Query(rect, list) == QueryFrom(rect, list, 1)

SearchInit ==
    /\ businessFile \in SeqsUpTo(BusinessRows, MaxBusinessRows)
    /\ searchGeo \in SearchGeos
    /\ searchNaf \in NafCodes
    /\ searchResults = <<>>
    /\ searchOutcome = "none"
    /\ searchArtifact = "none"
    /\ loadedBusinesses = <<>>

\* lines 233-238 with the error of the write handed to the caller
returnWriteError(found, writeErr) ==
    IF writeErr THEN [outcome |-> "err", results |-> <<>>]
    ELSE [outcome |-> "ok", results |-> found]

\* lines 233-238: the error of writeResultsToFile is logged and the results
\* are returned
returnResults(found, writeErr) == [outcome |-> "ok", results |-> found]

\* CSVService.SearchBusinesses; creating or writing the results file may fail
SearchBusinesses ==
    /\ searchOutcome = "none"
    /\ LET geometry == convertGeoJSONToGeometry(searchGeo)
           loaded == loadBusinessesByNAF(businessFile, searchNaf)
       IN  IF geometry.kind # "ok"
           THEN /\ searchOutcome' = geometry.kind
                /\ searchResults' = <<>>
                /\ searchArtifact' = "none"
                /\ loadedBusinesses' = <<>>
           ELSE IF loaded.kind # "ok"
           THEN /\ searchOutcome' = loaded.kind
                /\ searchResults' = <<>>
                /\ searchArtifact' = "none"
                /\ loadedBusinesses' = <<>>
           ELSE \E writeErr \in BOOLEAN :
                LET r == returnResults(Query(geometry.rect, loaded.list), writeErr)
                IN  /\ searchOutcome' = r.outcome
                    /\ searchResults' = r.results
                    /\ searchArtifact' = IF writeErr THEN "failed" ELSE "written"
                    /\ loadedBusinesses' = loaded.list
    /\ UNCHANGED <<businessFile, searchGeo, searchNaf>>

----------------------------------------------------------------------------
(* Criminality reducer: criminality_service.go                             *)

\* a float64 that is NaN or an infinity (the result of dividing by zero)
NotFinite == [n |-> 0, d |-> 0]

IsFinite(a) == a.d # 0

GoDiv(a, b) ==
    IF ~IsFinite(a) \/ ~IsFinite(b) \/ b.n = 0 THEN NotFinite ELSE FDiv(a, b)

GoMul(a, b) == IF ~IsFinite(a) \/ ~IsFinite(b) THEN NotFinite ELSE FMul(a, b)

GoSub(a, b) ==
    IF ~IsFinite(a) \/ ~IsFinite(b) THEN NotFinite ELSE FAdd(a, Frac(-b.n, b.d))

RECURSIVE TrimLeft(_, _)
\* strings.TrimLeft(s, c) for a one-character cutset c
TrimLeft(s, c) ==
    IF s # <<>> /\ Head(s) = c THEN TrimLeft(Tail(s), c) ELSE s

\* the crime types (columns of the two crime files); the code names fourteen,
\* all handled alike
CrimeTypes == {"drug_usage", "vehicle_theft"}

\* crimes_per_commune.csv after its header; a rate of -1 is an empty or
\* unparseable cell
CommuneCrimeRows ==
    << [code |-> <<"7", "5", "0", "5", "6">>,
        rate |-> [drug_usage |-> 2, vehicle_theft |-> 4]],
       [code |-> <<"0", "1", "0", "0", "1">>,
        rate |-> [drug_usage |-> 3, vehicle_theft |-> -1]],
       [code |-> <<"1", "3", "0", "5", "5">>,
        rate |-> [drug_usage |-> 5, vehicle_theft |-> 1]],
       [code |-> <<"2", "A", "0", "0", "4">>,
        rate |-> [drug_usage |-> 2, vehicle_theft |-> -1]] >>

\* dep-crime-data.csv after its header
DepartmentCrimeRows ==
    << [code |-> <<"7", "5">>, rate |-> [drug_usage |-> 1, vehicle_theft |-> 2]],
       [code |-> <<"0", "1">>, rate |-> [drug_usage |-> 2, vehicle_theft |-> 1]],
       [code |-> <<"1", "0">>, rate |-> [drug_usage |-> 6, vehicle_theft |-> 0]],
       [code |-> <<"1", "3">>, rate |-> [drug_usage |-> 0, vehicle_theft |-> 2]],
       [code |-> <<"2", "A">>, rate |-> [drug_usage |-> 3, vehicle_theft |-> 2]] >>

\* the map both loaders build: trimmed code -> crime type -> rate, a later row
\* overwriting an earlier one, cells without a number left out
LoadCrimeTable(rows) ==
    LET key(i) == TrimLeft(rows[i].code, "0")
        with(c, k) == {i \in 1..Len(rows) : key(i) = c /\ rows[i].rate[k] >= 0}
        last(S) == CHOOSE i \in S : \A j \in S : j <= i
    IN  [c \in {key(i) : i \in 1..Len(rows)} |->
            [k \in {t \in CrimeTypes : with(c, t) # {}} |->
                rows[last(with(c, k))].rate[k]]]

loadCommuneCrimes == LoadCrimeTable(CommuneCrimeRows)

loadDepartmentCrimes == LoadCrimeTable(DepartmentCrimeRows)

\* lines 181-182: the department key of a commune code (of a trimmed code
\* of at least two characters)
DepartmentCode(communeCode) == SubSeq(TrimLeft(communeCode, "0"), 1, 2)

\* commune.Population * commune.Percentage / 100
AreaPopulation(commune) ==
    FMul(FMul(FInt(commune.Population), commune.Percentage), Frac(1, 100))

\* departmentData[d].totalPopulation at the end of the commune loop: the
\* population of a commune is added once per crime type of the commune
DepartmentPopulation(communes, d) ==
    LET code(i) == TrimLeft(communes[i].CommuneCode, "0")
        I == {i \in 1..Len(communes) :
                /\ SubSeq(code(i), 1, 2) = d
                /\ code(i) \in DOMAIN loadCommuneCrimes}
        f == [i \in I |->
                FMul(FInt(Cardinality(DOMAIN loadCommuneCrimes[code(i)])),
                     AreaPopulation(communes[i]))]
    IN  FSum(f, I)

\* communeCode[:2] is out of range for a trimmed code shorter than 2
CrimPanics(communes) ==
    \E i \in 1..Len(communes) : Len(TrimLeft(communes[i].CommuneCode, "0")) < 2

\* the department codes the search for the highest population coverage can
\* end with: any department of strictly positive, maximal population (the
\* loop ranges over a map), the empty code when there is none
MaxDepts(communes) ==
    LET code(i) == TrimLeft(communes[i].CommuneCode, "0")
        D == {SubSeq(code(i), 1, 2) : i \in 1..Len(communes)}
        P == {d \in D : FLess(Zero, DepartmentPopulation(communes, d))}
        M == {d \in P : \A e \in P : FLeq(DepartmentPopulation(communes, e),
                                          DepartmentPopulation(communes, d))}
    IN  IF CrimPanics(communes) THEN {<<>>} ELSE IF M = {} THEN {<<>>} ELSE M

\* CalculateCriminality; maxDept[k] is the department the search ended with
\* in the pass of crime type k
CalculateCriminality(communes, maxDept) ==
    LET N == 1..Len(communes)
        code(i) == TrimLeft(communes[i].CommuneCode, "0")
        has(i) == code(i) \in DOMAIN loadCommuneCrimes
        pop == [i \in N |-> AreaPopulation(communes[i])]
        totalPopulation == FSum(pop, N)
        coveredPopulation == FSum(pop, {i \in N : has(i)})
        rated(k) == {i \in N : has(i) /\ k \in DOMAIN loadCommuneCrimes[code(i)]}
        weightedCrimes(k) ==
            [i \in rated(k) |->
                FMul(FMul(FInt(loadCommuneCrimes[code(i)][k]), pop[i]),
                     Frac(1, 1000))]
        CrimesTotal(k) == FSum(weightedCrimes(k), rated(k))
        areaCrimeRate(k) == GoDiv(FMul(CrimesTotal(k), FInt(1000)), totalPopulation)
        hasRate(k) == /\ maxDept[k] \in DOMAIN loadDepartmentCrimes
                      /\ k \in DOMAIN loadDepartmentCrimes[maxDept[k]]
        deptRate(k) == FInt(loadDepartmentCrimes[maxDept[k]][k])
        slot(k) ==
            IF rated(k) = {} THEN [present |-> FALSE]
            ELSE [present |-> TRUE,
                  IsTotal |-> TRUE,
                  CrimesTotal |-> CrimesTotal(k),
                  PercentageRelativeToDepartmental |->
                      IF hasRate(k)
                      THEN GoMul(GoDiv(GoSub(areaCrimeRate(k), deptRate(k)),
                                       deptRate(k)), FInt(100))
                      ELSE Zero,
                  PercentageCoveredCrimes |->
                      IF FLess(Zero, totalPopulation)
                      THEN FMul(FDiv(coveredPopulation, totalPopulation), FInt(100))
                      ELSE FInt(100)]
    IN  IF CrimPanics(communes) THEN [present |-> TRUE, kind |-> "panic"]
        ELSE [present |-> TRUE, kind |-> "ok", slots |-> [k \in CrimeTypes |-> slot(k)]]

\* the communes handed to the reducer
CrimCodes ==
    {<<"7", "5", "0", "5", "6">>, <<"0", "1", "0", "0", "1">>,
     <<"6", "9", "1", "2", "3">>, <<"1", "3", "0", "5", "5">>,
     <<"2", "A", "0", "0", "4">>, <<"2", "B", "0", "3", "3">>,
     <<"2", "0", "A", "0", "4">>, <<"0", "0", "0", "0", "7">>}

CrimCommunes ==
    [CommuneCode : CrimCodes, Population : {1000, 2000},
     Percentage : {FInt(100), FInt(50)}]

CrimInit ==
    /\ crimCommunes \in SeqsUpTo(CrimCommunes, MaxCommunes)
    /\ departmentData = {}
    /\ crimResponse = [present |-> FALSE]

\* one call of CalculateCriminality
CallCalculateCriminality ==
    /\ crimResponse = [present |-> FALSE]
    /\ \E maxDept \in [CrimeTypes -> MaxDepts(crimCommunes)] :
          crimResponse' = CalculateCriminality(crimCommunes, maxDept)
    /\ departmentData' = IF CrimPanics(crimCommunes) THEN {}
                         ELSE {DepartmentCode(crimCommunes[i].CommuneCode) :
                                  i \in 1..Len(crimCommunes)}
    /\ UNCHANGED crimCommunes

----------------------------------------------------------------------------
(* Zone aggregation: csv_service.go 384-445, 448-580, 583-736              *)

calculateIntersectionArea(requestPoly, irisPoly) ==
    IF ~Intersects(requestPoly, irisPoly) THEN 0
    ELSE IF Equals(requestPoly, irisPoly) THEN Area(irisPoly)
    ELSE IF Contains(requestPoly, irisPoly) THEN Area(irisPoly)
    ELSE IntersectionArea(requestPoly, irisPoly)

\* the clamp of line 427 left out
calculateIntersectionPercentageUnclamped(requestPoly, irisPoly) ==
    LET intersectionArea == calculateIntersectionArea(requestPoly, irisPoly)
    IN  IF intersectionArea = 0 \/ Area(irisPoly) <= 0 THEN Zero
        ELSE FMul(Frac(intersectionArea, Area(irisPoly)), FInt(100))

calculateIntersectionPercentage(requestPoly, irisPoly) ==
    LET intersectionArea == calculateIntersectionArea(requestPoly, irisPoly)
        irisArea == Area(irisPoly)
        percentage == FMul(Frac(intersectionArea, irisArea), FInt(100))
    IN  IF intersectionArea = 0 THEN Zero
        ELSE IF irisArea <= 0 THEN Zero
        ELSE IF FLess(percentage, FInt(5)) THEN Zero
        ELSE percentage

\* the factor of line 436 left out: every zone counted whole
aggregateIrisDataWhole(resp, iris, pct) ==
    [resp EXCEPT
        !.Data = [k \in DOMAIN resp.Data \cup DOMAIN iris.RawData |->
                    FAdd(IF k \in DOMAIN resp.Data THEN resp.Data[k] ELSE Zero,
                         IF k \in DOMAIN iris.RawData
                         THEN FInt(iris.RawData[k]) ELSE Zero)],
        !.TotalPopulation = FAdd(@, FInt(iris.TotalPopulation))]

\* the += of lines 440 and 444 as a plain assignment: the last result wins
aggregateIrisDataLast(resp, iris, pct) ==
    LET factor == FDiv(pct, FInt(100))
    IN  [resp EXCEPT
            !.Data = [k \in DOMAIN resp.Data \cup DOMAIN iris.RawData |->
                        IF k \in DOMAIN iris.RawData
                        THEN FMul(FInt(iris.RawData[k]), factor)
                        ELSE resp.Data[k]],
            !.TotalPopulation = FMul(FInt(iris.TotalPopulation), factor)]

aggregateIrisData(resp, iris, pct) ==
    LET factor == FDiv(pct, FInt(100))
    IN  [resp EXCEPT
            !.Data = [k \in DOMAIN resp.Data \cup DOMAIN iris.RawData |->
                        FAdd(IF k \in DOMAIN resp.Data THEN resp.Data[k] ELSE Zero,
                             IF k \in DOMAIN iris.RawData
                             THEN FMul(FInt(iris.RawData[k]), factor) ELSE Zero)],
            !.TotalPopulation = FAdd(@, FMul(FInt(iris.TotalPopulation), factor))]

\* commune codes (INSEE)
ComA == <<"7", "5", "0", "5", "6">>

ComB == <<"0", "1", "0", "0", "1">>

\* zone polygons
ZoneA == Rect(0, 0, 10, 10)

ZoneB == Rect(10, 0, 20, 10)

ZoneC == Rect(0, 0, 20, 10)

\* an IrisData as parseIrisRecord builds it: the polygon is never nil, and
\* TotalPopulation is RawData["population_total"]
Iris(com, poly, population, owners) ==
    [COM |-> com,
     RawData |-> [population_total |-> population, housing_owners |-> owners],
     TotalPopulation |-> population,
     Polygon |-> poly]

IrisZones ==
    {Iris(ComA, ZoneA, 100, 40), Iris(ComB, ZoneA, 100, 40),
     Iris(ComB, ZoneB, 200, 60), Iris(ComA, ZoneC, 1000, 300)}

\* the query polygons: half of ZoneA and ZoneB; ZoneA itself; ZoneC itself
\* (containing ZoneA and ZoneB); 5% of ZoneC and 10% of ZoneB; 4.5% of ZoneC
\* and 9% of ZoneB; far from every zone
IrisRects ==
    {Rect(5, 0, 15, 10), Rect(0, 0, 10, 10), Rect(0, 0, 20, 10),
     Rect(19, 0, 25, 10), Rect(19, 0, 25, 9), Rect(30, 30, 40, 40)}

IrisGeos ==
    {PolygonGeo(r) : r \in IrisRects}
        \cup {[type |-> "Polygon", coordinates |-> <<>>]}

\* a parsed polygon column: kind "ok", "nil" (parsePolygon returned nil) or
\* "empty" (the column is the empty string)
Poly(r) == [kind |-> "ok", rect |-> r]

NilPoly == [kind |-> "nil", rect |-> Rect(0, 0, 0, 0)]

EmptyPoly == [kind |-> "empty", rect |-> Rect(0, 0, 0, 0)]

\* a record of the commune CSV with len columns
CommuneRow(len, code, population, postal, poly) ==
    [len |-> len, code |-> code, Population |-> population,
     PostalCode |-> postal, Polygon |-> poly]

RowA(len, poly) == CommuneRow(len, ComA, 2000, "75001", poly)

RowB == CommuneRow(12, ComB, 1000, "01000", Poly(Rect(0, 0, 20, 20)))

\* the commune files: both communes; the same in the other order; commune A
\* along the east edge of the zones; commune A without a polygon; commune A
\* on a 6-column row; commune A on an 8-column row
CommuneFiles ==
    {<<RowA(12, Poly(Rect(0, 0, 20, 10))), RowB>>,
     <<RowB, RowA(12, Poly(Rect(0, 0, 20, 10)))>>,
     <<RowA(12, Poly(Rect(14, 0, 64, 10))), RowB>>,
     <<RowA(12, NilPoly), RowB>>,
     <<RowA(6, Poly(Rect(0, 0, 20, 10))), RowB>>,
     <<RowA(8, Poly(Rect(0, 0, 20, 10))), RowB>>}

\* a record of the special-zone CSV
QPRow(len, id, poly) ==
    [len |-> len, ID |-> id, CodeQP |-> "QN" \o id, LibQP |-> "lib",
     Commune |-> "commune", Polygon |-> poly]

QPFiles ==
    {<<>>,
     <<QPRow(8, "1", Poly(Rect(0, 0, 10, 10))), QPRow(7, "2", Poly(Rect(0, 0, 10, 10))),
       QPRow(8, "3", EmptyPoly), QPRow(8, "4", NilPoly),
       QPRow(9, "5", Poly(Rect(10, 0, 210, 10)))>>}

\* loadQPData: rows of fewer than 8 columns, with an empty polygon column or
\* with a polygon that does not parse are left out
loadQPData(rows) ==
    SelectSeq(rows, LAMBDA r : r.len >= 8 /\ r.Polygon.kind = "ok")

\* loadCommuneData: [kind |-> "ok", data |-> code -> CommuneData] or "panic"
\* (record[len(record)-10] of an accepted row of 7 to 9 columns)
loadCommuneData(rows, communeCodes) ==
    LET A == {i \in 1..Len(rows) : rows[i].len >= 7 /\ rows[i].code \in communeCodes}
        last(c) == CHOOSE i \in A :
                      rows[i].code = c /\ \A j \in A : rows[j].code = c => j <= i
        value(i) == [ID |-> Cardinality({j \in A : j < i}),
                     CommuneCode |-> rows[i].code,
                     PostalCode |-> rows[i].PostalCode,
                     Percentage |-> Zero,
                     Population |-> rows[i].Population,
                     Polygon |-> rows[i].Polygon]
    IN  IF \E i \in A : rows[i].len < 10
        THEN [kind |-> "panic", data |-> <<>>]
        ELSE [kind |-> "ok",
              data |-> [c \in {rows[i].code : i \in A} |-> value(last(c))]]

\* the orders a range over the set S (the keys of a map) can take
Perms(S) ==
    {p \in [1..Cardinality(S) -> S] :
        \A i, j \in 1..Cardinality(S) : p[i] = p[j] => i = j}

\* lines 679-691 with the test of lines 679-681 left out
AppendCommuneAlways(acc, communeValue, pct) ==
    IF communeValue \in Range(acc.Communes) THEN acc
    ELSE [acc EXCEPT
            !.Communes = Append(@, [communeValue EXCEPT !.Percentage = pct]),
            !.PostalCodes = Append(@, [PostalCode |-> communeValue.PostalCode,
                                       Percentage |-> pct])]

\* lines 679-691: one commune of the loop, pct its inclusion percentage
AppendCommune(acc, communeValue, pct) ==
    IF pct = Zero THEN acc
    ELSE IF communeValue \in Range(acc.Communes) THEN acc
    ELSE [acc EXCEPT
            !.Communes = Append(@, [communeValue EXCEPT !.Percentage = pct]),
            !.PostalCodes = Append(@, [PostalCode |-> communeValue.PostalCode,
                                       Percentage |-> pct])]

RECURSIVE CommuneLoop(_, _, _, _)
\* lines 676-693 for the iteration order `order`; a nil commune polygon is
\* dereferenced at line 678
CommuneLoop(order, communeData, polygon, acc) ==
    IF order = <<>> THEN acc
    ELSE LET c == Head(order) IN
         IF c \notin DOMAIN communeData
         THEN CommuneLoop(Tail(order), communeData, polygon, acc)
         ELSE IF communeData[c].Polygon.kind # "ok"
         THEN [acc EXCEPT !.kind = "panic"]
         ELSE CommuneLoop(Tail(order), communeData, polygon,
                  AppendCommune(acc, communeData[c],
                      calculateIntersectionPercentage(polygon,
                          communeData[c].Polygon.rect)))

\* lines 702-721
SpecialZones(qpData, polygon) ==
    LET kept == SelectSeq(qpData, LAMBDA qp :
                    calculateIntersectionPercentage(polygon, qp.Polygon.rect) # Zero)
    IN  [i \in 1..Len(kept) |->
            [ID |-> kept[i].ID, CodeQP |-> kept[i].CodeQP, LibQP |-> kept[i].LibQP,
             Commune |-> kept[i].Commune,
             IntersectionPercentage |->
                 calculateIntersectionPercentage(polygon, kept[i].Polygon.rect)]]

\* the test of line 665 never taken
NoIntersectionNever(zones) == FALSE

\* line 665
NoIntersection(zones) == zones = 0

\* json.Encoder.Encode refuses a NaN or an infinity
EncodeFails(resp) ==
    \E k \in CrimeTypes :
        /\ resp.Criminality.slots[k].present
        /\ \/ ~IsFinite(resp.Criminality.slots[k].CrimesTotal)
           \/ ~IsFinite(resp.Criminality.slots[k].PercentageRelativeToDepartmental)
           \/ ~IsFinite(resp.Criminality.slots[k].PercentageCoveredCrimes)

\* the IrisResponse of lines 601-608
EmptyResponse ==
    [present |-> TRUE, Data |-> <<>>, TotalPopulation |-> Zero, Communes |-> <<>>,
     PostalCodes |-> <<>>, SpecialZones |-> <<>>,
     Criminality |-> [present |-> FALSE]]

IrisInit ==
    /\ irisGeo \in IrisGeos
    /\ irisData \in SeqsUpTo(IrisZones, MaxZones)
    /\ communeFile \in CommuneFiles
    /\ qpFile \in QPFiles
    /\ irisPc = "start"
    /\ workerPc = <<>>
    /\ inclusionPercentage = <<>>
    /\ results = <<>>
    /\ resultsClosed = FALSE
    /\ response = [present |-> FALSE]
    /\ intersectingCommunes = {}
    /\ intersectingZones = 0
    /\ loadedCommunes = FALSE
    /\ loadedQP = FALSE
    /\ irisStatus = 0
    /\ firstRun = [present |-> FALSE]
    /\ irisArtifact = "none"

\* GetIrisData, lines 583-643: convert the geometry, load the zones, start
\* one goroutine per zone and the closer
StartIris ==
    /\ irisPc = "start"
    /\ IF convertGeoJSONToGeometry(irisGeo).kind = "ok"
       THEN /\ irisPc' = "reduce"
            /\ workerPc' = [i \in 1..Len(irisData) |-> "ready"]
            /\ inclusionPercentage' = [i \in 1..Len(irisData) |-> Zero]
            /\ response' = EmptyResponse
            /\ irisStatus' = 0
       ELSE /\ irisPc' = "done"
            /\ irisStatus' = 500
            /\ UNCHANGED <<workerPc, inclusionPercentage, response>>
    /\ UNCHANGED <<irisGeo, irisData, communeFile, qpFile, results, resultsClosed,
                   intersectingCommunes, intersectingZones, loadedCommunes,
                   loadedQP, firstRun,
                   irisArtifact>>

\* a goroutine that aggregates its own zone instead of sending the result
WorkerAggregates(i) ==
    /\ irisPc = "reduce"
    /\ workerPc[i] = "ready"
    /\ LET pct == calculateIntersectionPercentage(
                      convertGeoJSONToGeometry(irisGeo).rect, irisData[i].Polygon)
       IN  /\ inclusionPercentage' = [inclusionPercentage EXCEPT ![i] = pct]
           /\ response' = IF FLess(Zero, pct)
                          THEN aggregateIrisData(response, irisData[i], pct)
                          ELSE response
           /\ intersectingZones' = IF FLess(Zero, pct) THEN intersectingZones + 1
                                   ELSE intersectingZones
           /\ intersectingCommunes' =
                  IF FLess(Zero, pct)
                  THEN intersectingCommunes \cup {irisData[i].COM}
                  ELSE intersectingCommunes
    /\ workerPc' = [workerPc EXCEPT ![i] = "done"]
    /\ UNCHANGED <<irisGeo, irisData, communeFile, qpFile, irisPc, results,
                   resultsClosed, loadedCommunes, loadedQP, irisStatus, firstRun,
                   irisArtifact>>

\* the goroutine of zone i, lines 624-635; the channel holds len(irisData)
\* results, so the send never blocks
Worker(i) ==
    /\ irisPc = "reduce"
    /\ workerPc[i] = "ready"
    /\ LET pct == calculateIntersectionPercentage(
                      convertGeoJSONToGeometry(irisGeo).rect, irisData[i].Polygon)
       IN  /\ inclusionPercentage' = [inclusionPercentage EXCEPT ![i] = pct]
           /\ results' = IF FLess(Zero, pct)
                         THEN Append(results, [iris |-> i, percentage |-> pct])
                         ELSE results
    /\ workerPc' = [workerPc EXCEPT ![i] = "done"]
    /\ UNCHANGED <<irisGeo, irisData, communeFile, qpFile, irisPc, resultsClosed,
                   response, intersectingCommunes, intersectingZones,
                   loadedCommunes, loadedQP, irisStatus, firstRun,
                   irisArtifact>>

\* a closer that does not wait for the goroutines (no wg.Wait())
CloseResultsAtOnce ==
    /\ irisPc = "reduce"
    /\ ~resultsClosed
    /\ resultsClosed' = TRUE
    /\ UNCHANGED <<irisGeo, irisData, communeFile, qpFile, irisPc, workerPc,
                   inclusionPercentage, results, response, intersectingCommunes,
                   intersectingZones, loadedCommunes, loadedQP, irisStatus, firstRun,
                   irisArtifact>>

\* the closer, lines 639-643
CloseResults ==
    /\ irisPc = "reduce"
    /\ ~resultsClosed
    /\ \A i \in 1..Len(irisData) : workerPc[i] = "done"
    /\ resultsClosed' = TRUE
    /\ UNCHANGED <<irisGeo, irisData, communeFile, qpFile, irisPc, workerPc,
                   inclusionPercentage, results, response, intersectingCommunes,
                   intersectingZones, loadedCommunes, loadedQP, irisStatus, firstRun,
                   irisArtifact>>

\* one pass of the loop of lines 650-656
Reduce ==
    /\ irisPc = "reduce"
    /\ results # <<>>
    /\ intersectingZones' = intersectingZones + 1
    /\ response' = aggregateIrisData(response, irisData[Head(results).iris],
                                     Head(results).percentage)
    /\ intersectingCommunes' =
           intersectingCommunes \cup {irisData[Head(results).iris].COM}
    /\ results' = Tail(results)
    /\ UNCHANGED <<irisGeo, irisData, communeFile, qpFile, irisPc, workerPc,
                   inclusionPercentage, resultsClosed, loadedCommunes, loadedQP,
                   irisStatus, firstRun,
                   irisArtifact>>

\* lines 730-735: creating or writing the results file may fail, and
\* encoding a response that holds a value JSON cannot carry always does; the
\* error is logged
WriteErrors(resp) == IF EncodeFails(resp) THEN {TRUE} ELSE BOOLEAN

\* GetIrisData returns (or panics) and HandleIrisData, lines 488-500, answers
Return(pc, resp, status, communesLoaded, qpLoaded, artifact) ==
    /\ irisPc' = pc
    /\ irisArtifact' = artifact
    /\ response' = resp
    /\ irisStatus' = status
    /\ loadedCommunes' = communesLoaded
    /\ loadedQP' = qpLoaded

\* GetIrisData from line 658 on, once the results channel is closed and
\* drained: the zero test, the communes in the order the range over
\* intersectingCommunes takes, the special zones, the criminality; then the
\* handler's answer
Finish ==
    /\ irisPc = "reduce"
    /\ results = <<>>
    /\ resultsClosed
    /\ LET polygon == convertGeoJSONToGeometry(irisGeo).rect
           communeData == loadCommuneData(communeFile, intersectingCommunes)
       IN  IF NoIntersection(intersectingZones)
           THEN Return("done", [present |-> FALSE], 500, loadedCommunes, loadedQP,
                       "none")
           ELSE IF communeData.kind = "panic"
           THEN Return("panic", [present |-> FALSE], 0, TRUE, loadedQP, "none")
           ELSE \E order \in Perms(intersectingCommunes) :
                LET cl == CommuneLoop(order, communeData.data, polygon,
                              [kind |-> "ok", Communes |-> <<>>, PostalCodes |-> <<>>])
                IN  IF cl.kind = "panic"
                    THEN Return("panic", [present |-> FALSE], 0, TRUE, loadedQP, "none")
                    ELSE \E maxDept \in [CrimeTypes -> MaxDepts(cl.Communes)] :
                         LET crim == CalculateCriminality(cl.Communes, maxDept)
                             resp == [response EXCEPT
                                        !.Communes = cl.Communes,
                                        !.PostalCodes = cl.PostalCodes,
                                        !.SpecialZones =
                                            SpecialZones(loadQPData(qpFile), polygon),
                                        !.Criminality = crim]
                         IN  IF crim.kind = "panic"
                             THEN Return("panic", [present |-> FALSE], 0, TRUE, TRUE,
                                         "none")
                             ELSE \E writeErr \in WriteErrors(resp) :
                                  Return("done", resp,
                                         IF EncodeFails(resp) THEN 500 ELSE 200,
                                         TRUE, TRUE,
                                         IF writeErr THEN "failed" ELSE "written")
    /\ UNCHANGED <<irisGeo, irisData, communeFile, qpFile, workerPc,
                   inclusionPercentage, results, resultsClosed,
                   intersectingCommunes, intersectingZones, firstRun>>

\* the context of the request (r.Context() in HandleIrisData) is cancelled
\* while goroutines of the zone pass are still to run: the client went away
\* or the server's timeout passed. GetIrisData takes the geometry string
\* only, line 583
Cancel ==
    /\ irisPc = "reduce"
    /\ \E i \in 1..Len(irisData) : workerPc[i] = "ready"
    /\ ~cancelled
    /\ cancelled' = TRUE

\* the same request is sent again against the same files
Rerun ==
    /\ irisPc \in {"done", "panic"}
    /\ ~firstRun.present
    /\ firstRun' = [present |-> TRUE, pc |-> irisPc, status |-> irisStatus,
                    response |-> response]
    /\ irisPc' = "start"
    /\ workerPc' = <<>>
    /\ inclusionPercentage' = <<>>
    /\ results' = <<>>
    /\ resultsClosed' = FALSE
    /\ response' = [present |-> FALSE]
    /\ intersectingCommunes' = {}
    /\ intersectingZones' = 0
    /\ loadedCommunes' = FALSE
    /\ loadedQP' = FALSE
    /\ irisStatus' = 0
    /\ irisArtifact' = "none"
    /\ UNCHANGED <<irisGeo, irisData, communeFile, qpFile>>

----------------------------------------------------------------------------
(* HTTP handlers: handlers.go 216-506                                      *)

\* simplifyGeoJSONPolygon: coordinates[0] is read pair by pair (a coordinate
\* of fewer than two numbers is out of range at line 173); a ring of fewer
\* than minPoints (400) points, as every ring here, is returned unchanged
simplifyGeoJSONPolygon(coordinates) ==
    IF Len(coordinates) = 0 \/ Len(coordinates[1]) = 0
    THEN [kind |-> "ok", coordinates |-> coordinates]
    ELSE IF \E i \in 1..Len(coordinates[1]) : Len(coordinates[1][i]) < 2
    THEN [kind |-> "panic", coordinates |-> coordinates]
    ELSE [kind |-> "ok", coordinates |-> coordinates]

Endpoints == {"/competitor-search", "/competitor-count", "/competition", "/iris-data"}

Methods == {"POST", "GET", "PUT"}

\* the body: "valid" is one JSON value of the request's shape, "trailing" is
\* such a value followed by text that is not JSON, "invalid" is a text that
\* does not start with such a value
Bodies == {"valid", "trailing", "invalid"}

\* the geometries of a request: two polygons, a point, a polygon without
\* rings, a polygon with a one-number coordinate, and no geometry member
RequestGeos ==
    {PolygonGeo(Rect(0, 0, 10, 10)), PolygonGeo(Rect(5, 5, 6, 6)),
     [type |-> "Point", coordinates |-> <<>>],
     [type |-> "Polygon", coordinates |-> <<>>],
     [type |-> "Polygon", coordinates |-> << << <<1>> >> >>]}

Requests ==
    [endpoint : Endpoints, method : Methods, body : Bodies,
     nafCode : {"", "56.30Z"},
     type : {"Feature", "FeatureCollection", "GeometryCollection"},
     features : SeqsUpTo(RequestGeos, MaxFeatures),
     geometry : RequestGeos \cup {[type |-> "", coordinates |-> <<>>]}]

HttpInit ==
    /\ request \in Requests
    /\ httpPc = "ready"
    /\ httpStatus = 0
    /\ decoded = FALSE
    /\ invoked = FALSE
    /\ usedFeature = 0
    /\ handedGeo = [type |-> "none", coordinates |-> <<>>]
    /\ serviceResult = "none"

\* the method test left out
MethodAllowedAny(method) == TRUE

\* r.Method == http.MethodPost
MethodAllowed(method) == method = "POST"

\* json.NewDecoder(r.Body).Decode(&req) returns nil: the decoder reads the
\* first JSON value of the stream and does not look at what follows it
DecodeOk(body) == body \in {"valid", "trailing"}

\* the answer of a handler
Answer(pc, status, dec, inv, feature, geo) ==
    /\ httpPc' = pc
    /\ httpStatus' = status
    /\ decoded' = dec
    /\ invoked' = inv
    /\ usedFeature' = feature
    /\ handedGeo' = geo
    /\ serviceResult' = IF ~inv THEN "none" ELSE IF status = 200 THEN "ok" ELSE "err"
    /\ UNCHANGED request

\* the call of the search or the aggregation with geometry geo and the
\* handler's answer to its result: an unusable geometry is an error, and any
\* call can fail on its files
Invoke(feature, geo) ==
    IF convertGeoJSONToGeometry(geo).kind # "ok"
    THEN Answer("answered", 500, TRUE, TRUE, feature, geo)
    ELSE \E outcome \in {"ok", "err"} :
            Answer("answered", IF outcome = "ok" THEN 200 ELSE 500,
                   TRUE, TRUE, feature, geo)

\* the body shared by the four handlers; needsNaf is the nafCode test of the
\* three competitor handlers
Handle(needsNaf) ==
    IF ~MethodAllowed(request.method)
    THEN Answer("answered", 405, FALSE, FALSE, 0, handedGeo)
    ELSE IF ~DecodeOk(request.body)
    THEN Answer("answered", 400, TRUE, FALSE, 0, handedGeo)
    ELSE IF needsNaf /\ request.nafCode = ""
    THEN Answer("answered", 400, TRUE, FALSE, 0, handedGeo)
    ELSE IF request.type = "FeatureCollection"
    THEN IF Len(request.features) = 0
         THEN Answer("answered", 400, TRUE, FALSE, 0, handedGeo)
         ELSE IF request.features[1].type # "Polygon"
         THEN Answer("answered", 400, TRUE, FALSE, 0, handedGeo)
         ELSE IF simplifyGeoJSONPolygon(request.features[1].coordinates).kind = "panic"
         THEN Answer("panic", 0, TRUE, FALSE, 1, handedGeo)
         ELSE Invoke(1, [type |-> request.features[1].type,
                         coordinates |-> simplifyGeoJSONPolygon(
                             request.features[1].coordinates).coordinates])
    ELSE IF request.type = "Feature"
    THEN IF request.geometry.type # "Polygon"
         THEN Answer("answered", 400, TRUE, FALSE, 0, handedGeo)
         ELSE IF simplifyGeoJSONPolygon(request.geometry.coordinates).kind = "panic"
         THEN Answer("panic", 0, TRUE, FALSE, 0, handedGeo)
         ELSE Invoke(0, [type |-> request.geometry.type,
                         coordinates |-> simplifyGeoJSONPolygon(
                             request.geometry.coordinates).coordinates])
    ELSE Answer("answered", 400, TRUE, FALSE, 0, handedGeo)

HandleSearch ==
    httpPc = "ready" /\ request.endpoint = "/competitor-search" /\ Handle(TRUE)

HandleCompetitorCount ==
    httpPc = "ready" /\ request.endpoint = "/competitor-count" /\ Handle(TRUE)

HandleCompetitionData ==
    httpPc = "ready" /\ request.endpoint = "/competition" /\ Handle(TRUE)

HandleIrisData ==
    httpPc = "ready" /\ request.endpoint = "/iris-data" /\ Handle(FALSE)

----------------------------------------------------------------------------
\* the tests of a handler before its call of the service, lines 219-260 and
\* 450-485: a rejection with its status, a panic of the simplifier, or the
\* geometry to hand over
Validate(needsNaf) ==
    LET reject(status, dec) ==
            [kind |-> "reject", status |-> status, decoded |-> dec,
             feature |-> 0, geo |-> handedGeo]
    IN  IF ~MethodAllowed(request.method) THEN reject(405, FALSE)
        ELSE IF ~DecodeOk(request.body) THEN reject(400, TRUE)
        ELSE IF needsNaf /\ request.nafCode = "" THEN reject(400, TRUE)
        ELSE IF request.type = "FeatureCollection"
        THEN IF Len(request.features) = 0 THEN reject(400, TRUE)
             ELSE IF request.features[1].type # "Polygon" THEN reject(400, TRUE)
             ELSE IF simplifyGeoJSONPolygon(request.features[1].coordinates).kind
                         = "panic"
             THEN [kind |-> "panic", status |-> 0, decoded |-> TRUE,
                   feature |-> 1, geo |-> handedGeo]
             ELSE [kind |-> "ok", status |-> 0, decoded |-> TRUE, feature |-> 1,
                   geo |-> [type |-> request.features[1].type,
                            coordinates |-> simplifyGeoJSONPolygon(
                                request.features[1].coordinates).coordinates]]
        ELSE IF request.type = "Feature"
        THEN IF request.geometry.type # "Polygon" THEN reject(400, TRUE)
             ELSE IF simplifyGeoJSONPolygon(request.geometry.coordinates).kind = "panic"
             THEN [kind |-> "panic", status |-> 0, decoded |-> TRUE,
                   feature |-> 0, geo |-> handedGeo]
             ELSE [kind |-> "ok", status |-> 0, decoded |-> TRUE, feature |-> 0,
                   geo |-> [type |-> request.geometry.type,
                            coordinates |-> simplifyGeoJSONPolygon(
                                request.geometry.coordinates).coordinates]]
        ELSE reject(400, TRUE)

\* the handlers of /competitor-search and /iris-data step by step. First the
\* method test, the decoding and the validation: a rejected request is
\* answered at once, a panic of the simplifier ends the handler without an
\* answer (net/http recovers it and closes the connection)
ParseRequest ==
    /\ httpPc = "ready"
    /\ LET v == Validate(request.endpoint = "/competitor-search")
       IN  /\ httpPc' = CASE v.kind = "reject" -> "answered"
                           [] v.kind = "panic" -> "panic"
                           [] OTHER -> "parsed"
           /\ httpStatus' = v.status
           /\ decoded' = v.decoded
           /\ usedFeature' = v.feature
           /\ handedGeo' = v.geo
    /\ UNCHANGED <<request, invoked, serviceResult>>

\* lines 263-268 and 488-493: SearchBusinesses or GetIrisData returns its
\* result or an error, or panics on its files
CallService ==
    /\ httpPc = "parsed"
    /\ invoked' = TRUE
    /\ IF convertGeoJSONToGeometry(handedGeo).kind # "ok"
       THEN httpPc' = "computed" /\ serviceResult' = "err"
       ELSE \E outcome \in {"ok", "err", "panic"} :
               /\ httpPc' = IF outcome = "panic" THEN "panic" ELSE "computed"
               /\ serviceResult' = IF outcome = "panic" THEN "none" ELSE outcome
    /\ UNCHANGED <<request, httpStatus, decoded, usedFeature, handedGeo>>

\* lines 265-276 and 490-501: the answer to the result of the service
Respond ==
    /\ httpPc = "computed"
    /\ httpPc' = "answered"
    /\ httpStatus' = IF serviceResult = "ok" THEN 200 ELSE 500
    /\ UNCHANGED <<request, decoded, invoked, usedFeature, handedGeo, serviceResult>>

\* the requests of the two handlers
LifecycleRequests ==
    {r \in Requests : r.endpoint \in {"/competitor-search", "/iris-data"}}

LifecycleInit ==
    /\ request \in LifecycleRequests
    /\ httpPc = "ready"
    /\ httpStatus = 0
    /\ decoded = FALSE
    /\ invoked = FALSE
    /\ usedFeature = 0
    /\ handedGeo = [type |-> "none", coordinates |-> <<>>]
    /\ serviceResult = "none"

----------------------------------------------------------------------------
(* Competitor statistics: competition_service.go 161-255, 257-656          *)

\* the three financial values the reducer reads, one cell per year
Kinds == {"CA", "Result", "Employees"}

Years == 1..3

\* strconv.ParseFloat of a cell, 0 for a cell that is not a number
parseFloat(cell) ==
    CASE cell = "1" -> 1
      [] cell = "2" -> 2
      [] cell = "3" -> 3
      [] cell = "-1" -> -1
      [] OTHER -> 0

\* processBusinessData: kind -> year -> parsed value, 0 for an empty or
\* confidential cell
processBusinessData(business) ==
    [kind \in Kinds |->
        [y \in Years |->
            IF business[kind][y] # "" /\ business[kind][y] # "Confidentiel"
            THEN parseFloat(business[kind][y])
            ELSE 0]]

\* lines 395-403 and 199-207: the band key of a financial record
currKey(business) ==
    IF business.RangeCA[1] # "" THEN "rangeCA1"
    ELSE IF business.RangeCA[2] # "" THEN "rangeCA2"
    ELSE IF business.RangeCA[3] # "" THEN "rangeCA3"
    ELSE ""

Letters == {"A", "B", "C", "D", "E"}

\* getStatusCount: the band letter counted for a financial record ("" for
\* none); a band is one letter here
getStatusCount(business) ==
    LET status == CASE currKey(business) = "rangeCA1" -> business.RangeCA[1]
                    [] currKey(business) = "rangeCA2" -> business.RangeCA[2]
                    [] currKey(business) = "rangeCA3" -> business.RangeCA[3]
                    [] OTHER -> ""
    IN  IF status \in Letters THEN status ELSE ""

\* math.Round(n / d) for d > 0: half away from zero
Round(n, d) ==
    IF n >= 0 THEN (2 * n + d) \div (2 * d) ELSE -((2 * (-n) + d) \div (2 * d))

RECURSIVE SeqSum(_)
SeqSum(values) == IF values = <<>> THEN 0 ELSE Head(values) + SeqSum(Tail(values))

calculateAverages(values) ==
    IF Len(values) = 0 THEN 0 ELSE Round(SeqSum(values), Len(values))

calculatePercentages(declared, total) ==
    IF total = 0 THEN Zero ELSE Frac(declared * 100, total)

RECURSIVE Concat(_)
Concat(seqs) == IF seqs = <<>> THEN <<>> ELSE Head(seqs) \o Concat(Tail(seqs))

\* the members of a group that have an entry in s.competitionData
WithData(nafBusinesses) == SelectSeq(nafBusinesses, LAMBDA b : b.data.present)

\* lines 420-479: the year array of a kind, the values that are not 0 in the
\* order of the group
YearArray(nafBusinesses, kind, y) ==
    LET with == WithData(nafBusinesses)
        all == [i \in 1..Len(with) |-> processBusinessData(with[i].data)[kind][y]]
    IN  SelectSeq(all, LAMBDA v : v # 0)

\* lines 436-445
Trend(business) ==
    LET ca == processBusinessData(business)["CA"] IN
    IF ca[1] # 0 /\ ca[2] # 0 /\ ca[3] # 0
    THEN IF ca[1] > ca[2] /\ ca[2] > ca[3] THEN "increase"
         ELSE IF ca[1] < ca[2] /\ ca[2] < ca[3] THEN "decrease"
         ELSE "mixed"
    ELSE "none"

CountWhere(s, Test(_)) == Len(SelectSeq(s, Test))

\* lines 320-572: the record of one activity-code group
GroupStats(nafBusinesses) ==
    LET with == WithData(nafBusinesses)
        numCompetitors == Len(nafBusinesses)
        array == [kind \in Kinds |->
                     [y \in Years |-> YearArray(nafBusinesses, kind, y)]]
    IN  [NumberOfCompetitors |-> Len(with),
         numCompetitors |-> numCompetitors,
         NumCompetitorsWithStatus |->
             [l \in Letters |->
                 CountWhere(with, LAMBDA b : getStatusCount(b.data) = l)],
         Array |-> array,
         CompetitorsAverage |->
             [kind \in Kinds |-> [y \in Years |-> calculateAverages(array[kind][y])]],
         PercentageCompetitorsWithDeclared |->
             [kind \in Kinds |->
                 [y \in Years |->
                     calculatePercentages(Len(array[kind][y]), numCompetitors)]],
         NumCompetitorsWithConsistentIncrease |->
             CountWhere(with, LAMBDA b : Trend(b.data) = "increase"),
         NumCompetitorsWithConsistentDecrease |->
             CountWhere(with, LAMBDA b : Trend(b.data) = "decrease"),
         NumCompetitorsWithMixedTrend |->
             CountWhere(with, LAMBDA b : Trend(b.data) = "mixed"),
         OldDataUsed |-> \E i \in 1..Len(with) : currKey(with[i].data) # "rangeCA1"]

\* lines 259-262: the businesses of an activity code, in the order given
businessesByNAF(matched, nafCode) ==
    SelectSeq(matched, LAMBDA b : b.NAFCode = nafCode)

\* GetCompetitionData for the order `order` in which the groups are visited
\* (the loop ranges over a map); totalNumCompetitors starts at
\* len(businesses) (line 316) and grows by the size of every group (line 521)
GetCompetitionData(matched, order) ==
    LET codes == {matched[i].NAFCode : i \in 1..Len(matched)}
        group == [c \in codes |-> GroupStats(businessesByNAF(matched, c))]
        N == 1..Len(order)
        total(f) == SeqSum([i \in N |-> f[order[i]]])
        totalNumCompetitors ==
            Len(matched) + total([c \in codes |-> group[c].numCompetitors])
        array == [kind \in Kinds |->
                     [y \in Years |->
                         Concat([i \in N |-> group[order[i]].Array[kind][y]])]]
    IN  [present |-> TRUE,
         NAFCodes |-> group,
         Averages |->
            [numCompetitors |-> totalNumCompetitors,
             NumCompetitorsWithStatus |->
                 [l \in Letters |->
                     total([c \in codes |-> group[c].NumCompetitorsWithStatus[l]])],
             Array |-> array,
             CompetitorsAverage |->
                 [kind \in Kinds |->
                     [y \in Years |-> calculateAverages(array[kind][y])]],
             PercentageCompetitorsWithDeclared |->
                 [kind \in Kinds |->
                     [y \in Years |->
                         calculatePercentages(Len(array[kind][y]),
                                              totalNumCompetitors)]],
             NumCompetitorsWithConsistentIncrease |->
                 total([c \in codes |-> group[c].NumCompetitorsWithConsistentIncrease]),
             NumCompetitorsWithConsistentDecrease |->
                 total([c \in codes |-> group[c].NumCompetitorsWithConsistentDecrease]),
             NumCompetitorsWithMixedTrend |->
                 total([c \in codes |-> group[c].NumCompetitorsWithMixedTrend]),
             OldDataUsed |-> \E c \in codes : group[c].OldDataUsed]]

\* a matched business without an entry in s.competitionData
NoFinancial == [present |-> FALSE]

\* a financial record with every cell declared, revenue rising year on year
\* (year 1 is the last year)
FullRecord ==
    [present |-> TRUE,
     CA |-> <<"3", "2", "1">>,
     Result |-> <<"1", "1", "-1">>,
     Employees |-> <<"2", "2", "1">>,
     RangeCA |-> <<"A", "A", "A">>]

CATriples ==
    {<<"1", "2", "3">>, <<"2", "2", "1">>, <<"2", "", "1">>,
     <<"0", "2", "3">>, <<"Confidentiel", "2", "1">>}

RangeTriples ==
    {<<"", "B", "">>, <<"", "", "C">>, <<"", "", "">>}

\* the entries of s.competitionData the matched businesses are joined with
FinancialData ==
    {FullRecord}
        \cup {[FullRecord EXCEPT !.CA = t] : t \in CATriples}
        \cup {[FullRecord EXCEPT !.RangeCA = r] : r \in RangeTriples}
        \cup {[FullRecord EXCEPT !.Result = <<"0", "Confidentiel", "">>,
                                 !.Employees = <<"", "0", "3">>]}

\* the matched businesses handed to GetCompetitionData, each with its entry
\* of s.competitionData
Competitors ==
    [NAFCode : NafCodes, data : FinancialData \cup {NoFinancial}]

CompInit ==
    /\ competitors \in SeqsUpTo(Competitors, MaxCompetitors)
    /\ competitionResponse = [present |-> FALSE]

\* one call of GetCompetitionData
CallGetCompetitionData ==
    /\ competitionResponse = [present |-> FALSE]
    /\ \E order \in Perms({competitors[i].NAFCode : i \in 1..Len(competitors)}) :
          competitionResponse' = GetCompetitionData(competitors, order)
    /\ UNCHANGED competitors

----------------------------------------------------------------------------
(* Polygon simplifier: handlers.go 115-162                                 *)

\* the square of perpendicularDistance(point, lineStart, lineEnd), an exact
\* fraction: distances are compared through their squares
perpendicularDistance(point, lineStart, lineEnd) ==
    IF lineStart = lineEnd
    THEN FInt((point[1] - lineStart[1]) * (point[1] - lineStart[1])
              + (point[2] - lineStart[2]) * (point[2] - lineStart[2]))
    ELSE LET area == (lineEnd[2] - lineStart[2]) * point[1]
                         - (lineEnd[1] - lineStart[1]) * point[2]
                         + lineEnd[1] * lineStart[2] - lineEnd[2] * lineStart[1]
             lineLength == (lineEnd[1] - lineStart[1]) * (lineEnd[1] - lineStart[1])
                             + (lineEnd[2] - lineStart[2]) * (lineEnd[2] - lineStart[2])
         IN  Frac(area * area, lineLength)

\* a slice of the backing array of the points (start, len) and a slice of an
\* array of its own
ArraySlice(start, len) == [alias |-> TRUE, start |-> start, len |-> len]

OwnSlice(items) == [alias |-> FALSE, items |-> items]

\* the elements of a slice, read from the backing array arr
Content(arr, slice) ==
    IF slice.alias THEN SubSeq(arr, slice.start, slice.start + slice.len - 1)
    ELSE slice.items

\* append(firstLine, secondLine...): the pivot is kept twice
appendWhole(arr, firstLine, secondLine) ==
    [arr |-> arr,
     out |-> OwnSlice(Content(arr, firstLine) \o Content(arr, secondLine))]

\* line 157, append(firstLine[:len(firstLine)-1], secondLine...): written in
\* place when firstLine is a slice of the backing array with room for the
\* result, into a new array otherwise
appendLines(arr, firstLine, secondLine) ==
    LET first == Content(arr, firstLine)
        second == Content(arr, secondLine)
        keep == Len(first) - 1
        needed == keep + Len(second)
    IN  IF firstLine.alias /\ firstLine.start - 1 + needed <= Len(arr)
        THEN [arr |-> [i \in 1..Len(arr) |->
                          IF i >= firstLine.start + keep /\ i < firstLine.start + needed
                          THEN second[i - (firstLine.start + keep) + 1]
                          ELSE arr[i]],
              out |-> ArraySlice(firstLine.start, needed)]
        ELSE [arr |-> arr, out |-> OwnSlice(SubSeq(first, 1, keep) \o second)]

RECURSIVE maxIndexFrom(_, _, _, _, _)
\* lines 139-148: the loop from index i on, maxIndex being the best so far
maxIndexFrom(arr, lo, hi, i, maxIndex) ==
    IF i >= hi THEN maxIndex
    ELSE LET distance == perpendicularDistance(arr[i], arr[lo], arr[hi])
             maxDistance == IF maxIndex = lo THEN Zero
                            ELSE perpendicularDistance(arr[maxIndex], arr[lo], arr[hi])
         IN  maxIndexFrom(arr, lo, hi, i + 1,
                          IF FLess(maxDistance, distance) THEN i ELSE maxIndex)

RECURSIVE simplifyPolygon(_, _, _, _)
\* simplifyPolygon(points, epsilon) for points = arr[lo..hi], a slice of the
\* backing array arr: the array after the call and the slice returned
simplifyPolygon(arr, lo, hi, eps) ==
    IF hi - lo + 1 <= 2 THEN [arr |-> arr, out |-> ArraySlice(lo, hi - lo + 1)]
    ELSE LET maxIndex == maxIndexFrom(arr, lo, hi, lo + 1, lo)
             maxDistance == IF maxIndex = lo THEN Zero
                            ELSE perpendicularDistance(arr[maxIndex], arr[lo], arr[hi])
         IN  IF FLess(FMul(eps, eps), maxDistance)
             THEN LET firstLine == simplifyPolygon(arr, lo, maxIndex, eps)
                      secondLine == simplifyPolygon(firstLine.arr, maxIndex, hi, eps)
                  IN  appendLines(secondLine.arr, firstLine.out, secondLine.out)
             ELSE [arr |-> arr, out |-> OwnSlice(<<arr[lo], arr[hi]>>)]

\* the vertices of the rings handed to the simplifier
Points == {<<0, 0>>, <<2, 0>>, <<3, 1>>, <<2, 2>>, <<0, 1>>}

Epsilons == {Zero, Frac(1, 2), FInt(1), FInt(2)}

SimplifyInit ==
    /\ points \in SeqsUpTo(Points, MaxPoints)
    /\ epsilon \in Epsilons
    /\ simplified = [present |-> FALSE]

\* one call of simplifyPolygon on a points
CallSimplifyPolygon ==
    /\ simplified = [present |-> FALSE]
    /\ LET r == simplifyPolygon(points, 1, Len(points), epsilon)
       IN  simplified' = [present |-> TRUE, points |-> Content(r.arr, r.out)]
    /\ UNCHANGED <<points, epsilon>>

----------------------------------------------------------------------------
(* Results artifacts: csv_service.go 185-211, 355-382                      *)

NoName == <<>>

\* time.Now().Format("20060102_150405"): the time to the second
Format(t) == t \div TicksPerSecond

\* lines 193-194 and 363-364
FileName(req, t) ==
    IF req.endpoint = "/search"
    THEN <<"results", req.nafCode, Format(t)>>
    ELSE <<"iris_results", Format(t)>>

\* two requests, each a search for an activity code or an aggregation
Writers ==
    [1..2 -> {[endpoint |-> "/search", nafCode |-> n] : n \in NafCodes}
                \cup {[endpoint |-> "/iris-data", nafCode |-> ""]}]

ArtifactInit ==
    /\ clock = 0
    /\ writers \in Writers
    /\ fileNames = [w \in DOMAIN writers |-> NoName]
    /\ files = <<>>

\* time passes
Tick ==
    /\ clock < MaxTicks
    /\ clock' = clock + 1
    /\ UNCHANGED <<writers, fileNames, files>>

\* request w reaches writeResultsToFile or writeIrisResultsToFile: os.Create
\* makes the file or truncates the one that is there
WriteArtifact(w) ==
    /\ fileNames[w] = NoName
    /\ LET name == FileName(writers[w], clock)
       IN  /\ fileNames' = [fileNames EXCEPT ![w] = name]
           /\ files' = [n \in DOMAIN files \cup {name} |->
                           IF n = name THEN w ELSE files[n]]
    /\ UNCHANGED <<clock, writers>>

----------------------------------------------------------------------------
(* Idle values of the components a specification does not exercise         *)

NoGeo == [type |-> "none", coordinates |-> <<>>]

NoResponse == [present |-> FALSE]

SearchIdle ==
    /\ businessFile = <<>>
    /\ searchGeo = NoGeo
    /\ searchNaf = ""
    /\ searchResults = <<>>
    /\ searchOutcome = "none"
    /\ searchArtifact = "none"
    /\ loadedBusinesses = <<>>

IrisIdle ==
    /\ irisGeo = NoGeo
    /\ irisData = <<>>
    /\ communeFile = <<>>
    /\ qpFile = <<>>
    /\ irisPc = "idle"
    /\ workerPc = <<>>
    /\ inclusionPercentage = <<>>
    /\ results = <<>>
    /\ resultsClosed = FALSE
    /\ response = NoResponse
    /\ intersectingCommunes = {}
    /\ intersectingZones = 0
    /\ loadedCommunes = FALSE
    /\ loadedQP = FALSE
    /\ irisStatus = 0
    /\ firstRun = NoResponse
    /\ irisArtifact = "none"

HttpIdle ==
    /\ request = [endpoint |-> "none"]
    /\ httpPc = "idle"
    /\ httpStatus = 0
    /\ decoded = FALSE
    /\ invoked = FALSE
    /\ usedFeature = 0
    /\ handedGeo = NoGeo
    /\ serviceResult = "none"

CrimIdle ==
    /\ crimCommunes = <<>>
    /\ departmentData = {}
    /\ crimResponse = NoResponse

CompIdle ==
    /\ competitors = <<>>
    /\ competitionResponse = NoResponse

SimplifyIdle ==
    /\ points = <<>>
    /\ epsilon = Zero
    /\ simplified = NoResponse

CancelIdle == cancelled = FALSE

ArtifactIdle ==
    /\ clock = 0
    /\ writers = <<>>
    /\ fileNames = <<>>
    /\ files = <<>>

----------------------------------------------------------------------------
(* Specification of the competitor-financials loader                       *)

InitLoad == LoaderInit /\ SearchIdle /\ IrisIdle /\ HttpIdle /\ CrimIdle
    /\ CompIdle
    /\ SimplifyIdle
    /\ CancelIdle
    /\ ArtifactIdle

NextLoad ==
    \/ StartLoad /\ UNCHANGED <<searchVars, irisVars, httpVars, crimVars, compVars, simplifyVars, cancelVars, artifactVars>>
    \/ ReadRecordStruct /\ UNCHANGED <<searchVars, irisVars, httpVars, crimVars, compVars, simplifyVars, cancelVars, artifactVars>>
    \/ ReadRecordMap /\ UNCHANGED <<searchVars, irisVars, httpVars, crimVars, compVars, simplifyVars, cancelVars, artifactVars>>
    \/ EndLoad /\ UNCHANGED <<searchVars, irisVars, httpVars, crimVars, compVars, simplifyVars, cancelVars, artifactVars>>

SpecLoad == InitLoad /\ [][NextLoad]_vars

\* the row of SIRET s whose publicationDate is strictly later than that of
\* every other row of s in the file (0 when there is none)
LatestRow(s) ==
    LET R == RowsOf(s)
        best == {i \in R : \A j \in R \ {i} :
                    csvRows[i].publicationDate > csvRows[j].publicationDate}
    IN  IF best = {} THEN 0 ELSE CHOOSE i \in best : TRUE

\* C1: after loadCompetitionData (struct version, the one GetCompetitionData
\* of lines 257-656 reads) has consumed the whole stream, every matched SIRET
\* that occurs on several rows, all with a valid date and one strictly latest,
\* is stored with the row of the strictly latest publicationDate.
C1_LatestPublicationWins ==
    (loaderVersion = "struct" /\ loadResult = "ok") =>
        \A s \in businesses :
            (/\ Cardinality(RowsOf(s)) >= 2
             /\ \A i \in RowsOf(s) : ParseOk(csvRows[i].publicationDate)
             /\ LatestRow(s) # 0)
            => /\ competitionData[s].present
               /\ competitionData[s].line = LatestRow(s)

\* the same statement of the map version of the loader (lines 705-851)
C1_LatestPublicationWinsMap ==
    (loaderVersion = "map" /\ loadResult = "ok") =>
        \A s \in businesses :
            (/\ Cardinality(RowsOf(s)) >= 2
             /\ \A i \in RowsOf(s) : ParseOk(csvRows[i].publicationDate)
             /\ LatestRow(s) # 0)
            => /\ competitionData[s].present
               /\ competitionData[s].line = LatestRow(s)

----------------------------------------------------------------------------
(* Specification of the business search                                    *)

InitSearch == LoaderIdle /\ SearchInit /\ IrisIdle /\ HttpIdle /\ CrimIdle
    /\ CompIdle
    /\ SimplifyIdle
    /\ CancelIdle
    /\ ArtifactIdle

NextSearch ==
    SearchBusinesses /\ UNCHANGED <<loaderVars, irisVars, httpVars, crimVars, compVars, simplifyVars, cancelVars, artifactVars>>

SpecSearch == InitSearch /\ [][NextSearch]_vars

\* pointInRing of the specification: inside the ring or on it
PointInRing(x, y, r) == r.x1 <= x /\ x <= r.x2 /\ r.y1 <= y /\ y <= r.y2

\* C2: every business SearchBusinesses(P, code) returns has activityCode = code
\* and its own point (longitude, latitude) lies inside the outer ring of P.
C2_SearchSound ==
    searchOutcome = "ok" =>
        \A i \in 1..Len(searchResults) :
            /\ searchResults[i].NAFCode = searchNaf
            /\ PointInRing(searchResults[i].Longitude, searchResults[i].Latitude,
                           RectOfRing(searchGeo.coordinates[1]))

\* the part of C2 that the code does keep: the activity code of every result is
\* the requested one and the point as printed with 6 decimals is inside P
C2_SearchSoundPrinted ==
    searchOutcome = "ok" =>
        \A i \in 1..Len(searchResults) :
            /\ searchResults[i].NAFCode = searchNaf
            /\ PointInRing(FormatF(searchResults[i].Longitude),
                           FormatF(searchResults[i].Latitude),
                           RectOfRing(searchGeo.coordinates[1]))

----------------------------------------------------------------------------
(* Specification of the criminality reducer                                *)

InitCrim == LoaderIdle /\ SearchIdle /\ IrisIdle /\ HttpIdle /\ CrimInit
    /\ CompIdle
    /\ SimplifyIdle
    /\ CancelIdle
    /\ ArtifactIdle

NextCrim ==
    CallCalculateCriminality
        /\ UNCHANGED <<loaderVars, searchVars, irisVars, httpVars, compVars, simplifyVars, cancelVars, artifactVars>>

SpecCrim == InitCrim /\ [][NextCrim]_vars

\* the communes of the call that have a rate for crime type k
CoveredFor(k) ==
    {i \in 1..Len(crimCommunes) :
        LET c == TrimLeft(crimCommunes[i].CommuneCode, "0")
        IN  c \in DOMAIN loadCommuneCrimes /\ k \in DOMAIN loadCommuneCrimes[c]}

\* sum over the communes covered for k of population x pct/100 x rate_k/1000
WeightedCrimes(k) ==
    LET f == [i \in CoveredFor(k) |->
                FMul(FMul(AreaPopulation(crimCommunes[i]),
                          FInt(loadCommuneCrimes[TrimLeft(crimCommunes[i].CommuneCode, "0")][k])),
                     Frac(1, 1000))]
    IN  FSum(f, CoveredFor(k))

\* sum of population x pct/100 over the communes covered for k
CoveredResidence(k) ==
    FSum([i \in CoveredFor(k) |-> AreaPopulation(crimCommunes[i])], CoveredFor(k))

\* C10: for every crime type k with coverage above 0, the crimesTotal field of
\* the response slot is the area rate per 1000: the weighted crimes of the
\* covered communes x 1000 / the residence of the communes covered for k.
C10_CrimesTotalIsAreaRate ==
    (crimResponse.present /\ crimResponse.kind = "ok") =>
        \A k \in CrimeTypes :
            FLess(Zero, CoveredResidence(k)) =>
                /\ crimResponse.slots[k].present
                /\ crimResponse.slots[k].CrimesTotal =
                       FDiv(FMul(WeightedCrimes(k), FInt(1000)), CoveredResidence(k))

\* what the slot does carry: the weighted number of crimes, not a rate
C10_CrimesTotalIsWeightedSum ==
    (crimResponse.present /\ crimResponse.kind = "ok") =>
        \A k \in CrimeTypes :
            FLess(Zero, CoveredResidence(k)) =>
                /\ crimResponse.slots[k].present
                /\ crimResponse.slots[k].CrimesTotal = WeightedCrimes(k)

----------------------------------------------------------------------------
(* Specification of the zone aggregation                                   *)

InitIris == LoaderIdle /\ SearchIdle /\ IrisInit /\ HttpIdle /\ CrimIdle
    /\ CompIdle
    /\ SimplifyIdle
    /\ CancelIdle
    /\ ArtifactIdle

NextIris ==
    \/ StartIris /\ UNCHANGED <<loaderVars, searchVars, httpVars, crimVars, compVars, simplifyVars, cancelVars, artifactVars>>
    \/ \E i \in 1..Len(irisData) :
          Worker(i) /\ UNCHANGED <<loaderVars, searchVars, httpVars, crimVars, compVars, simplifyVars, cancelVars, artifactVars>>
    \/ CloseResults /\ UNCHANGED <<loaderVars, searchVars, httpVars, crimVars, compVars, simplifyVars, cancelVars, artifactVars>>
    \/ Reduce /\ UNCHANGED <<loaderVars, searchVars, httpVars, crimVars, compVars, simplifyVars, cancelVars, artifactVars>>
    \/ Finish /\ UNCHANGED <<loaderVars, searchVars, httpVars, crimVars, compVars, simplifyVars, cancelVars, artifactVars>>
    \/ Rerun /\ UNCHANGED <<loaderVars, searchVars, httpVars, crimVars, compVars, simplifyVars, cancelVars, artifactVars>>

SpecIris == InitIris /\ [][NextIris]_vars

\* the query polygon P of the request
QueryRect == RectOfRing(irisGeo.coordinates[1])

QueryOk == irisGeo.type = "Polygon" /\ Len(irisGeo.coordinates) > 0

\* 100 x intersectionArea(P, Z) / area(Z), before any clamp
RawPercentage(P, Z) ==
    Frac(100 * Max(0, Min(P.x2, Z.x2) - Max(P.x1, Z.x1))
             * Max(0, Min(P.y2, Z.y2) - Max(P.y1, Z.y1)),
         (Z.x2 - Z.x1) * (Z.y2 - Z.y1))

\* the zones whose intersection percentage with P is at least 5
Contributing ==
    {i \in 1..Len(irisData) :
        FLeq(FInt(5), RawPercentage(QueryRect, irisData[i].Polygon))}

\* sum over the contributing zones of pct/100 x value
ExpectedSum(value) ==
    FSum([i \in Contributing |->
             FMul(FDiv(RawPercentage(QueryRect, irisData[i].Polygon), FInt(100)),
                  FInt(value[i]))],
         Contributing)

AllReduced ==
    \/ irisPc = "reduce" /\ resultsClosed /\ results = <<>>
    \/ irisPc = "done" /\ response.present

\* C3: a zone contributes iff its intersection percentage with P is at least
\* 5, and once all contributions are reduced totalPopulation is the sum over
\* the contributing zones of pct/100 x zone.totalPopulation and every
\* attribute k is the sum over them of pct/100 x zone.attributes[k].
C3_ZoneAggregation ==
    AllReduced =>
        /\ intersectingZones = Cardinality(Contributing)
        /\ response.TotalPopulation =
               ExpectedSum([i \in 1..Len(irisData) |-> irisData[i].TotalPopulation])
        /\ \A k \in {"population_total", "housing_owners"} :
               (IF k \in DOMAIN response.Data THEN response.Data[k] ELSE Zero) =
                   ExpectedSum([i \in 1..Len(irisData) |-> irisData[i].RawData[k]])

\* two zones at 50% with populations 100 and 200 have been reduced to 150
C3_Witness ==
    /\ irisPc = "done"
    /\ response.present
    /\ Cardinality(Contributing) = 2
    /\ \A i \in Contributing :
           RawPercentage(QueryRect, irisData[i].Polygon) = FInt(50)
    /\ response.TotalPopulation = FInt(150)
    /\ response.Data["population_total"] = FInt(150)

\* v is in [0, 100], is 0 when raw < 5 and is 5 when raw = 5
ClampedPercentage(v, raw) ==
    /\ FLeq(Zero, v)
    /\ FLeq(v, FInt(100))
    /\ FLess(raw, FInt(5)) => v = Zero
    /\ raw = FInt(5) => v = FInt(5)

\* C4: for every query polygon P and every zone polygon Z (IRIS, commune or
\* special zone) calculateIntersectionPercentage(P, Z) is in [0, 100], and it
\* is exactly 0 whenever 100 x intersectionArea / area(Z) is strictly less
\* than 5; a raw value of exactly 5 is kept.
C4_PercentageRange ==
    /\ \A i \in 1..Len(inclusionPercentage) :
           workerPc[i] = "done" =>
               ClampedPercentage(inclusionPercentage[i],
                                 RawPercentage(QueryRect, irisData[i].Polygon))
    /\ (irisPc = "done" /\ response.present) =>
           /\ \A j \in 1..Len(response.Communes) :
                  /\ ClampedPercentage(response.Communes[j].Percentage,
                         RawPercentage(QueryRect, response.Communes[j].Polygon.rect))
                  /\ response.Communes[j].Percentage # Zero
           /\ \A j \in 1..Len(response.SpecialZones) :
                  \E r \in Range(qpFile) :
                      /\ r.ID = response.SpecialZones[j].ID
                      /\ ClampedPercentage(
                             response.SpecialZones[j].IntersectionPercentage,
                             RawPercentage(QueryRect, r.Polygon.rect))
                      /\ response.SpecialZones[j].IntersectionPercentage # Zero

\* a goroutine has computed a percentage of exactly 5 and kept it
C4_Witness ==
    \E i \in 1..Len(inclusionPercentage) :
        /\ workerPc[i] = "done"
        /\ QueryOk
        /\ RawPercentage(QueryRect, irisData[i].Polygon) = FInt(5)
        /\ inclusionPercentage[i] = FInt(5)

\* C5: when no IRIS zone has an intersection percentage of at least 5 with
\* P, GetIrisData returns an error and no response object, loads neither the
\* communes nor the special zones, and the /iris-data handler answers 500.
C5_NoContributingZone ==
    (irisPc \in {"done", "panic"} /\ QueryOk /\ Contributing = {}) =>
        /\ irisPc = "done"
        /\ ~response.present
        /\ ~loadedCommunes
        /\ ~loadedQP
        /\ irisStatus = 500

\* a request whose polygon overlaps a zone, by less than 5%, was answered 500
C5_Witness ==
    /\ irisPc = "done"
    /\ QueryOk
    /\ Contributing = {}
    /\ \E i \in 1..Len(irisData) :
           FLess(Zero, RawPercentage(QueryRect, irisData[i].Polygon))
    /\ irisStatus = 500

\* C6: re-running the same aggregation request against the same data yields
\* the same response, the order of administrative.communes and
\* administrative.postalCodes included.
C6_RerunSameResponse ==
    (irisPc \in {"done", "panic"} /\ firstRun.present) =>
        /\ firstRun.pc = irisPc
        /\ firstRun.status = irisStatus
        /\ firstRun.response = response

\* what a re-run does keep: the outcome, the sums and the set of communes
C6_RerunSameUpToOrder ==
    (irisPc \in {"done", "panic"} /\ firstRun.present) =>
        /\ firstRun.pc = irisPc
        /\ firstRun.response.present = response.present
        /\ response.present =>
              /\ firstRun.response.Data = response.Data
              /\ firstRun.response.TotalPopulation = response.TotalPopulation
              /\ firstRun.response.SpecialZones = response.SpecialZones
              /\ Range(firstRun.response.Communes) = Range(response.Communes)
              /\ Range(firstRun.response.PostalCodes) = Range(response.PostalCodes)

\* the commune codes of the contributing zones
OwnerCodes == {irisData[i].COM : i \in Contributing}

\* C7: in the aggregation response every commune whose polygon intersects P
\* by at least 5% and that owns a contributing IRIS zone appears exactly once
\* in administrative.communes, communes below 5% are absent, and
\* administrative.postalCodes has one entry per included commune, at the same
\* position, with that commune's postal code and the same percentage.
C7_CommuneLists ==
    (irisPc = "done" /\ response.present) =>
        /\ \A i, j \in 1..Len(response.Communes) :
               response.Communes[i].CommuneCode = response.Communes[j].CommuneCode
                   => i = j
        /\ \A r \in {x \in Range(communeFile) : x.len >= 7} :
               (\E j \in 1..Len(response.Communes) :
                    /\ response.Communes[j].CommuneCode = r.code
                    /\ response.Communes[j].Percentage =
                           RawPercentage(QueryRect, r.Polygon.rect))
               <=> (/\ r.code \in OwnerCodes
                    /\ r.Polygon.kind = "ok"
                    /\ FLeq(FInt(5), RawPercentage(QueryRect, r.Polygon.rect)))
        /\ \A j \in 1..Len(response.Communes) :
               \E r \in Range(communeFile) :
                   r.len >= 7 /\ r.code = response.Communes[j].CommuneCode
        /\ Len(response.PostalCodes) = Len(response.Communes)
        /\ \A j \in 1..Len(response.Communes) :
               /\ response.PostalCodes[j].PostalCode = response.Communes[j].PostalCode
               /\ response.PostalCodes[j].Percentage = response.Communes[j].Percentage

\* a response that lists one commune and leaves out another that owns a
\* contributing zone but intersects P by less than 5%
C7_Witness ==
    /\ irisPc = "done"
    /\ response.present
    /\ Len(response.Communes) = 1
    /\ Len(response.PostalCodes) = 1
    /\ \E r \in Range(communeFile) :
           /\ r.len >= 7
           /\ r.code \in OwnerCodes
           /\ r.Polygon.kind = "ok"
           /\ FLess(Zero, RawPercentage(QueryRect, r.Polygon.rect))
           /\ FLess(RawPercentage(QueryRect, r.Polygon.rect), FInt(5))

----------------------------------------------------------------------------
(* Specification of the HTTP handlers                                      *)

InitHttp == LoaderIdle /\ SearchIdle /\ IrisIdle /\ HttpInit /\ CrimIdle
    /\ CompIdle
    /\ SimplifyIdle
    /\ CancelIdle
    /\ ArtifactIdle

NextHttp ==
    \/ HandleSearch /\ UNCHANGED <<loaderVars, searchVars, irisVars, crimVars, compVars, simplifyVars, cancelVars, artifactVars>>
    \/ HandleCompetitorCount /\ UNCHANGED <<loaderVars, searchVars, irisVars, crimVars, compVars, simplifyVars, cancelVars, artifactVars>>
    \/ HandleCompetitionData /\ UNCHANGED <<loaderVars, searchVars, irisVars, crimVars, compVars, simplifyVars, cancelVars, artifactVars>>
    \/ HandleIrisData /\ UNCHANGED <<loaderVars, searchVars, irisVars, crimVars, compVars, simplifyVars, cancelVars, artifactVars>>

SpecHttp == InitHttp /\ [][NextHttp]_vars

\* C8: every handler answers a request whose method is not POST with status
\* 405, whatever the body, without decoding the body or invoking the search
\* or the aggregation.
C8_MethodNotAllowed ==
    (httpPc # "ready" /\ request.method # "POST") =>
        /\ httpPc = "answered"
        /\ httpStatus = 405
        /\ ~decoded
        /\ ~invoked

\* a GET with an otherwise acceptable body was answered 405
C8_Witness ==
    /\ httpPc = "answered"
    /\ request.method = "GET"
    /\ request.body = "valid"
    /\ request.type = "Feature"
    /\ request.geometry.type = "Polygon"
    /\ request.nafCode # ""
    /\ httpStatus = 405

\* the requests C9 names, the body apart
Unsupported(req) ==
    \/ req.endpoint # "/iris-data" /\ req.nafCode = ""
    \/ req.type \notin {"Feature", "FeatureCollection"}
    \/ req.type = "FeatureCollection" /\ Len(req.features) = 0
    \/ req.type = "FeatureCollection" /\ Len(req.features) > 0
           /\ req.features[1].type # "Polygon"
    \/ req.type = "Feature" /\ req.geometry.type # "Polygon"

\* C9: a POST whose body is not valid JSON, whose nafCode is empty (on the
\* three competitor endpoints), whose type is neither "Feature" nor
\* "FeatureCollection", that is a FeatureCollection with zero features, or
\* whose (first) geometry type is not "Polygon" is answered with status 400
\* and the search or aggregation is never invoked for it; a
\* FeatureCollection uses only its first feature.
C9_RequestValidation ==
    (httpPc # "ready" /\ request.method = "POST") =>
        /\ (request.body # "valid" \/ Unsupported(request)) =>
               (httpPc = "answered" /\ httpStatus = 400 /\ ~invoked)
        /\ (invoked /\ request.type = "FeatureCollection") =>
               (usedFeature = 1 /\ handedGeo = request.features[1])

\* what the handlers do keep: the same with "the body is not valid JSON" read
\* as "the body does not start with a JSON value of the request's shape"
C9_RequestValidationDecoded ==
    (httpPc # "ready" /\ request.method = "POST") =>
        /\ (request.body = "invalid" \/ Unsupported(request)) =>
               (httpPc = "answered" /\ httpStatus = 400 /\ ~invoked)
        /\ (invoked /\ request.type = "FeatureCollection") =>
               (usedFeature = 1 /\ handedGeo = request.features[1])

\* areaRate of crime type k: crimesTotal x 1000 / coveredResidence
AreaRate(k) == FDiv(FMul(WeightedCrimes(k), FInt(1000)), CoveredResidence(k))

\* (areaRate - depRate) / depRate x 100, 0 when depRate is 0
ExpectedRelative(areaRate, depRate) ==
    IF depRate = Zero THEN Zero
    ELSE FMul(FDiv(FAdd(areaRate, Frac(-depRate.n, depRate.d)), depRate), FInt(100))

\* the departmental rates of crime type k of the departments of the call
DeptRates(k) ==
    {FInt(loadDepartmentCrimes[d][k]) :
        d \in {e \in departmentData \cap DOMAIN loadDepartmentCrimes :
                  k \in DOMAIN loadDepartmentCrimes[e]}}

\* some department of the call has no rate for crime type k
DeptRateMissing(k) ==
    \E d \in departmentData :
        d \notin DOMAIN loadDepartmentCrimes \/ k \notin DOMAIN loadDepartmentCrimes[d]

\* C11: for every crime type with coverage above 0,
\* percentageRelativeToDepartmental is (areaRate - depRate) / depRate x 100
\* for the rate of a department of the call, it is 0 when that rate is 0, and
\* no value of the slot is infinite or undefined.
C11_RelativeDeviation ==
    (crimResponse.present /\ crimResponse.kind = "ok") =>
        \A k \in CrimeTypes :
            FLess(Zero, CoveredResidence(k)) =>
                /\ crimResponse.slots[k].present
                /\ IsFinite(crimResponse.slots[k].PercentageRelativeToDepartmental)
                /\ \/ \E r \in DeptRates(k) :
                          crimResponse.slots[k].PercentageRelativeToDepartmental =
                              ExpectedRelative(AreaRate(k), r)
                   \/ /\ DeptRateMissing(k)
                      /\ crimResponse.slots[k].PercentageRelativeToDepartmental = Zero

\* the part the reducer keeps: no slot value is infinite or undefined unless
\* a departmental rate of the call is 0
C11_FiniteUnlessZeroRate ==
    (crimResponse.present /\ crimResponse.kind = "ok") =>
        \A k \in CrimeTypes :
            (crimResponse.slots[k].present /\ Zero \notin DeptRates(k)) =>
                IsFinite(crimResponse.slots[k].PercentageRelativeToDepartmental)

\* the department keys the description allows for an INSEE code: its first
\* three characters for the Corsican pattern 20A / 20B, otherwise its first
\* two characters, taken before or after the leading zeros are stripped
ExpectedDepartments(code) ==
    IF Len(code) > 2 /\ code[1] = "2" /\ code[2] = "0" /\ code[3] \in {"A", "B"}
    THEN {SubSeq(code, 1, 3)}
    ELSE {SubSeq(code, 1, 2), SubSeq(TrimLeft(code, "0"), 1, 2)}

\* C12: the department keys of a call are the department codes of its
\* communes: "2A" for a code starting with 2A, "2B" for one starting with 2B,
\* "75" for 75056, in general the first two characters of the INSEE code and
\* the first three for the Corsican pattern.
C12_DepartmentCode ==
    (crimResponse.present /\ crimResponse.kind = "ok") =>
        /\ \A i \in 1..Len(crimCommunes) :
              departmentData \cap ExpectedDepartments(crimCommunes[i].CommuneCode) # {}
        /\ \A d \in departmentData :
              \E i \in 1..Len(crimCommunes) :
                  d \in ExpectedDepartments(crimCommunes[i].CommuneCode)

\* the part the reducer keeps: a code without a leading zero is keyed by its
\* first two characters
C12_FirstTwoCharacters ==
    (crimResponse.present /\ crimResponse.kind = "ok") =>
        \A i \in 1..Len(crimCommunes) :
            Head(crimCommunes[i].CommuneCode) # "0" =>
                SubSeq(crimCommunes[i].CommuneCode, 1, 2) \in departmentData

(* Specification of the competitor statistics                              *)

InitComp ==
    LoaderIdle /\ SearchIdle /\ IrisIdle /\ HttpIdle /\ CrimIdle /\ CompInit
        /\ SimplifyIdle
        /\ CancelIdle /\ ArtifactIdle

NextComp ==
    CallGetCompetitionData
        /\ UNCHANGED <<loaderVars, searchVars, irisVars, httpVars, crimVars, simplifyVars, cancelVars, artifactVars>>

SpecComp == InitComp /\ [][NextComp]_vars

\* the activity codes of the call
CompCodes == {competitors[i].NAFCode : i \in 1..Len(competitors)}

\* the matched businesses of activity code c, by position
Members(c) == {i \in 1..Len(competitors) : competitors[i].NAFCode = c}

\* the matched businesses that have a financial record
WithRecord == {i \in 1..Len(competitors) : competitors[i].data.present}

\* 100 x declared / matched for a statistics record whose scope holds
\* `matched` businesses, the declared values being those of its year arrays
CoverageOf(record, kind, y, matched) ==
    IF matched = 0 THEN Zero ELSE Frac(100 * Len(record.Array[kind][y]), matched)

\* C13: in every per-group record and in the averages record, every
\* coverage percentage is 100 x declared / matched businesses in scope, the
\* scope of the averages record being all matched businesses counted once.
C13_CoveragePercentages ==
    competitionResponse.present =>
        \A kind \in Kinds, y \in Years :
            /\ \A c \in CompCodes :
                  competitionResponse.NAFCodes[c].PercentageCompetitorsWithDeclared[kind][y]
                      = CoverageOf(competitionResponse.NAFCodes[c], kind, y,
                                   Cardinality(Members(c)))
            /\ competitionResponse.Averages.PercentageCompetitorsWithDeclared[kind][y]
                  = CoverageOf(competitionResponse.Averages, kind, y, Len(competitors))

\* the part the reducer keeps: the per-group percentages, and an averages
\* record whose percentages are taken over twice the matched businesses
C13_CoverageCountedTwice ==
    competitionResponse.present =>
        \A kind \in Kinds, y \in Years :
            /\ \A c \in CompCodes :
                  competitionResponse.NAFCodes[c].PercentageCompetitorsWithDeclared[kind][y]
                      = CoverageOf(competitionResponse.NAFCodes[c], kind, y,
                                   Cardinality(Members(c)))
            /\ competitionResponse.Averages.PercentageCompetitorsWithDeclared[kind][y]
                  = CoverageOf(competitionResponse.Averages, kind, y,
                               2 * Len(competitors))

\* a cell is declared: non-empty and not the sentinel
Declared(cell) == cell # "" /\ cell # "Confidentiel"

RECURSIVE Ascending(_)
\* the elements of a set of integers in ascending order
Ascending(I) ==
    IF I = {} THEN <<>>
    ELSE LET i == CHOOSE j \in I : \A k \in I : j <= k
         IN  <<i>> \o Ascending(I \ {i})

\* the parsed cells of kind and year y of the businesses of I for which
\* Keep holds, in the order of the call
ValuesWhere(I, kind, y, Keep(_)) ==
    LET kept == SelectSeq(Ascending(I),
                          LAMBDA i : Keep(competitors[i].data[kind][y]))
    IN  [n \in 1..Len(kept) |-> parseFloat(competitors[kept[n]].data[kind][y])]

\* C14: for each matched business with a financial record and each year,
\* the CA, Result and Employees value is appended to the year array iff the
\* cell is non-empty and not "Confidentiel"; a cell holding 0 is appended.
C14_DeclaredValues ==
    competitionResponse.present =>
        \A c \in CompCodes, kind \in Kinds, y \in Years :
            competitionResponse.NAFCodes[c].Array[kind][y]
                = ValuesWhere(Members(c) \cap WithRecord, kind, y, Declared)

\* the part the reducer keeps: a declared cell is appended unless its number
\* is 0
C14_DeclaredNonZeroValues ==
    competitionResponse.present =>
        \A c \in CompCodes, kind \in Kinds, y \in Years :
            competitionResponse.NAFCodes[c].Array[kind][y]
                = ValuesWhere(Members(c) \cap WithRecord, kind, y,
                              LAMBDA cell : Declared(cell) /\ parseFloat(cell) # 0)

\* the businesses of activity code c with a financial record whose three CA
\* cells are declared
AllCADeclared(c) ==
    {i \in Members(c) \cap WithRecord :
        \A y \in Years : Declared(competitors[i].data.CA[y])}

\* the parsed CA of year y of business i
CAOf(i, y) == parseFloat(competitors[i].data.CA[y])

\* C15: each business whose CA1, CA2 and CA3 are all declared is counted in
\* exactly one of consistentIncrease (CA1 > CA2 > CA3), consistentDecrease
\* (CA1 < CA2 < CA3) and mixedTrend (otherwise), the numbers being compared;
\* a business with an undeclared CA is counted in none.
C15_TrendClassification ==
    competitionResponse.present =>
        \A c \in CompCodes :
            LET inc == {i \in AllCADeclared(c) :
                           CAOf(i, 1) > CAOf(i, 2) /\ CAOf(i, 2) > CAOf(i, 3)}
                dec == {i \in AllCADeclared(c) :
                           CAOf(i, 1) < CAOf(i, 2) /\ CAOf(i, 2) < CAOf(i, 3)}
                stats == competitionResponse.NAFCodes[c]
            IN  /\ stats.NumCompetitorsWithConsistentIncrease = Cardinality(inc)
                /\ stats.NumCompetitorsWithConsistentDecrease = Cardinality(dec)
                /\ stats.NumCompetitorsWithMixedTrend =
                       Cardinality(AllCADeclared(c) \ (inc \cup dec))

\* the part the reducer keeps: the three counters never exceed the
\* businesses with all three CA declared, and reach them when no CA is 0
C15_TrendOfNonZero ==
    competitionResponse.present =>
        \A c \in CompCodes :
            LET stats == competitionResponse.NAFCodes[c]
                counted == stats.NumCompetitorsWithConsistentIncrease
                               + stats.NumCompetitorsWithConsistentDecrease
                               + stats.NumCompetitorsWithMixedTrend
            IN  /\ counted <= Cardinality(AllCADeclared(c))
                /\ (\A i \in AllCADeclared(c), y \in Years : CAOf(i, y) # 0)
                       => counted = Cardinality(AllCADeclared(c))

\* C16: oldDataUsed of a group is true iff a matched business with a
\* financial record was classified by rangeCA2 or rangeCA3 as fallback; it
\* is false when every such business has a non-empty rangeCA1.
C16_OldDataUsed ==
    competitionResponse.present =>
        \A c \in CompCodes :
            competitionResponse.NAFCodes[c].OldDataUsed
                <=> \E i \in Members(c) \cap WithRecord :
                        /\ competitors[i].data.RangeCA[1] = ""
                        /\ \/ competitors[i].data.RangeCA[2] # ""
                           \/ competitors[i].data.RangeCA[3] # ""

\* the part the reducer keeps: oldDataUsed is true iff some business with a
\* financial record has an empty rangeCA1
C16_OldDataUsedNoRange1 ==
    competitionResponse.present =>
        \A c \in CompCodes :
            competitionResponse.NAFCodes[c].OldDataUsed
                <=> \E i \in Members(c) \cap WithRecord :
                        competitors[i].data.RangeCA[1] = ""

(* Specification of the polygon simplifier                                 *)

InitSimplify ==
    LoaderIdle /\ SearchIdle /\ IrisIdle /\ HttpIdle /\ CrimIdle /\ CompIdle
        /\ SimplifyInit
        /\ CancelIdle /\ ArtifactIdle

NextSimplify ==
    CallSimplifyPolygon
        /\ UNCHANGED <<loaderVars, searchVars, irisVars, httpVars, crimVars, compVars, cancelVars, artifactVars>>

SpecSimplify == InitSimplify /\ [][NextSimplify]_vars

RECURSIVE IsSubsequence(_, _)
\* a is b with some elements left out, the order kept
IsSubsequence(a, b) ==
    IF a = <<>> THEN TRUE
    ELSE IF b = <<>> THEN FALSE
    ELSE IF Head(a) = Head(b) THEN IsSubsequence(Tail(a), Tail(b))
    ELSE IsSubsequence(a, Tail(b))

\* C17: for every ring R and every epsilon >= 0, simplifyPolygon(R) has at
\* most as many vertices as R, is a subsequence of R in the original order,
\* and its first and last vertices are the first and last vertices of R.
C17_SimplifierMonotone ==
    simplified.present =>
        /\ Len(simplified.points) <= Len(points)
        /\ IsSubsequence(simplified.points, points)
        /\ points # <<>> =>
              /\ simplified.points # <<>>
              /\ simplified.points[1] = points[1]
              /\ simplified.points[Len(simplified.points)] = points[Len(points)]

\* a points that loses a vertex and keeps one between its ends
C17_Witness ==
    /\ simplified.present
    /\ Len(simplified.points) < Len(points)
    /\ Len(simplified.points) > 3

\* C18: a failure to create or write the results file of a search never
\* changes the outcome: the businesses found are returned as when the write
\* succeeds, and no error is propagated.
C18_WriteFailureIgnored ==
    searchArtifact = "failed" =>
        /\ searchOutcome = "ok"
        /\ searchResults =
               Query(convertGeoJSONToGeometry(searchGeo).rect,
                     loadBusinessesByNAF(businessFile, searchNaf).list)

\* a search that found a business and failed to write its results file
C18_Witness ==
    /\ searchArtifact = "failed"
    /\ searchResults # <<>>

\* the same for the results file of the aggregation: the response and the
\* status are those of the reduction, whether or not the file was written
C18_AggregationWriteFailureIgnored ==
    irisArtifact = "failed" =>
        /\ irisPc = "done"
        /\ response.present
        /\ irisStatus = (IF EncodeFails(response) THEN 500 ELSE 200)
        /\ response.TotalPopulation =
               ExpectedSum([i \in 1..Len(irisData) |-> irisData[i].TotalPopulation])

C18_AggregationWitness ==
    /\ irisArtifact = "failed"
    /\ irisStatus = 200
    /\ FLess(Zero, response.TotalPopulation)

(* Specification of the request lifecycle                                  *)

InitLifecycle ==
    LoaderIdle /\ SearchIdle /\ IrisIdle /\ LifecycleInit /\ CrimIdle /\ CompIdle
        /\ SimplifyIdle
        /\ CancelIdle /\ ArtifactIdle

NextLifecycle ==
    \/ ParseRequest
          /\ UNCHANGED <<loaderVars, searchVars, irisVars, crimVars, compVars, simplifyVars, cancelVars, artifactVars>>
    \/ CallService
          /\ UNCHANGED <<loaderVars, searchVars, irisVars, crimVars, compVars, simplifyVars, cancelVars, artifactVars>>
    \/ Respond
          /\ UNCHANGED <<loaderVars, searchVars, irisVars, crimVars, compVars, simplifyVars, cancelVars, artifactVars>>

\* the handler runs in a goroutine of its own that the scheduler keeps
\* running: a step that is possible is taken
SpecLifecycle ==
    InitLifecycle /\ [][NextLifecycle]_vars /\ WF_vars(NextLifecycle)

\* the lifecycle of the description: Received -> Parsed -> Computed ->
\* Responded, and Received -> Responded with an error status
LifecycleStep ==
    \/ httpPc = "ready" /\ httpPc' = "parsed"
    \/ httpPc = "parsed" /\ httpPc' = "computed"
    \/ httpPc = "computed" /\ httpPc' = "answered"
    \/ httpPc = "ready" /\ httpPc' = "answered" /\ httpStatus' >= 400

\* C19: every request moves Received -> Parsed -> Computed -> Responded and
\* reaches Responded exactly once; the search or the aggregation starts only
\* after parsing and validation succeeded; a parse or validation failure goes
\* from Received directly to Responded with an error status.
C19_RequestLifecycle ==
    /\ [][LifecycleStep]_vars
    /\ [](invoked => decoded /\ httpPc \in {"parsed", "computed", "answered"})
    /\ <>[](httpPc = "answered" /\ httpStatus # 0)

\* the part the handlers keep: the same lifecycle for every request that
\* does not end in a panic, which is never answered
C19_LifecycleUnlessPanic ==
    /\ [][LifecycleStep \/ httpPc' = "panic"]_vars
    /\ [](invoked => decoded)
    /\ <>[](httpPc = "panic" \/ (httpPc = "answered" /\ httpStatus # 0))

----------------------------------------------------------------------------
(* C20: the reducer is insensitive to the order of delivery and of rows    *)

\* the zones whose result the reducer has taken from the channel
Consumed ==
    {i \in 1..Len(irisData) :
        /\ workerPc[i] = "done"
        /\ FLess(Zero, inclusionPercentage[i])
        /\ \A j \in 1..Len(results) : results[j].iris # i}

RECURSIVE SumInOrder(_, _)
\* pct/100 x value accumulated from zero over the zones in the order given
SumInOrder(order, value) ==
    IF order = <<>> THEN Zero
    ELSE LET i == order[Len(order)]
         IN  FAdd(SumInOrder(SubSeq(order, 1, Len(order) - 1), value),
                  FMul(FDiv(RawPercentage(QueryRect, irisData[i].Polygon),
                            FInt(100)),
                       FInt(value[i])))

\* C20: whatever order the zone workers deliver their results in and whatever
\* order the IRIS rows have, totalPopulation and every attribute sum are what
\* accumulating the consumed zones in any order gives, and the set of
\* intersecting commune codes is the set of their communes; once the channel
\* is drained the consumed zones are the contributing ones.
C20_OrderInsensitive ==
    (irisPc = "reduce" \/ AllReduced) =>
        /\ \A order \in Perms(Consumed) :
              /\ response.TotalPopulation =
                     SumInOrder(order, [i \in 1..Len(irisData) |->
                                           irisData[i].TotalPopulation])
              /\ \A k \in {"population_total", "housing_owners"} :
                     (IF k \in DOMAIN response.Data THEN response.Data[k]
                      ELSE Zero) =
                         SumInOrder(order, [i \in 1..Len(irisData) |->
                                               irisData[i].RawData[k]])
        /\ intersectingCommunes = {irisData[i].COM : i \in Consumed}
        /\ AllReduced => Consumed = Contributing

\* the second row's result was reduced while the first row's, with another
\* population and another commune, still waits in the channel
C20_Witness ==
    /\ irisPc = "reduce"
    /\ Len(irisData) = 2
    /\ Contributing = {1, 2}
    /\ irisData[1].TotalPopulation # irisData[2].TotalPopulation
    /\ irisData[1].COM # irisData[2].COM
    /\ Consumed = {2}
    /\ Len(results) = 1
    /\ results[1].iris = 1
    /\ intersectingZones = 1

----------------------------------------------------------------------------
(* C21: only the reducer writes the accumulators                           *)

Accumulators == <<response, intersectingCommunes, intersectingZones>>

\* a step of the goroutine of some zone: its position goes from ready to done
WorkerStep ==
    \E i \in DOMAIN workerPc :
        /\ i \in DOMAIN workerPc'
        /\ workerPc[i] = "ready"
        /\ workerPc'[i] = "done"

\* a step of the reducer: it takes the head of the results channel
ReducerStep ==
    /\ results # <<>>
    /\ results' = Tail(results)
    /\ workerPc' = workerPc

\* C21: during the zone pass a step of a worker leaves the response
\* accumulators, the intersecting-commune set and the zone counter as they
\* are, and every step that changes one of them is a step of the reducer
\* taking a result from the channel; no step is both.
C21_ReducerOwnsAccumulators ==
    [][/\ WorkerStep => UNCHANGED Accumulators
       /\ (irisPc = "reduce" /\ irisPc' = "reduce" /\ Accumulators' # Accumulators)
              => ReducerStep
       /\ ~(WorkerStep /\ ReducerStep)]_vars

\* the reducer has written the accumulators for one zone while the goroutine
\* of another zone has not yet run
C21_Witness ==
    /\ irisPc = "reduce"
    /\ intersectingZones = 1
    /\ intersectingCommunes # {}
    /\ response.TotalPopulation # Zero
    /\ \E i \in 1..Len(irisData) : workerPc[i] = "ready"

----------------------------------------------------------------------------
(* C22: the number of zone goroutines alive at once                        *)

\* the goroutines started at line 623 that have not yet returned
LiveWorkers == {i \in DOMAIN workerPc : workerPc[i] = "ready"}

\* C22: within one aggregation request the number of zone workers that exist
\* at the same time never exceeds the pool size, however many zones are
\* loaded.
C22_BoundedWorkerPool == Cardinality(LiveWorkers) <= PoolSize

\* as the code has it: one goroutine per loaded zone, and no other limit
C22_OneWorkerPerZone ==
    /\ Cardinality(LiveWorkers) <= Len(irisData)
    /\ (irisPc = "reduce" /\ results = <<>> /\ intersectingZones = 0
          /\ \A i \in DOMAIN workerPc : workerPc[i] = "ready")
         => Cardinality(LiveWorkers) = Len(irisData)

----------------------------------------------------------------------------
(* Specification of the zone aggregation under cancellation                *)

InitCancel == InitIris

NextCancel ==
    \/ StartIris /\ UNCHANGED <<loaderVars, searchVars, httpVars, crimVars, compVars, simplifyVars, cancelVars, artifactVars>>
    \/ \E i \in 1..Len(irisData) :
          Worker(i) /\ UNCHANGED <<loaderVars, searchVars, httpVars, crimVars, compVars, simplifyVars, cancelVars, artifactVars>>
    \/ CloseResults /\ UNCHANGED <<loaderVars, searchVars, httpVars, crimVars, compVars, simplifyVars, cancelVars, artifactVars>>
    \/ Reduce /\ UNCHANGED <<loaderVars, searchVars, httpVars, crimVars, compVars, simplifyVars, cancelVars, artifactVars>>
    \/ Finish /\ UNCHANGED <<loaderVars, searchVars, httpVars, crimVars, compVars, simplifyVars, cancelVars, artifactVars>>
    \/ Cancel /\ UNCHANGED <<loaderVars, searchVars, irisVars, httpVars, crimVars, compVars, simplifyVars, artifactVars>>

SpecCancel == InitCancel /\ [][NextCancel]_vars

\* C23: when a cancellation signal is raised during the zone pass, the
\* aggregation ends with an error and no partially accumulated response is
\* returned.
C23_CancellationAborts ==
    (cancelled /\ irisPc = "done") => (irisStatus = 500 /\ ~response.present)

\* as the code has it: a cancelled aggregation that has intersecting zones
\* ends as one that was not cancelled, with all contributing zones reduced
C23_CancellationIgnored ==
    (cancelled /\ irisPc = "done" /\ Contributing # {} /\ ~EncodeFails(response))
        => /\ irisStatus = 200
           /\ response.present
           /\ intersectingZones = Cardinality(Contributing)

----------------------------------------------------------------------------
(* Specification of the results artifacts of two concurrent requests       *)

InitArtifact == LoaderIdle /\ SearchIdle /\ IrisIdle /\ HttpIdle /\ CrimIdle
    /\ CompIdle
    /\ SimplifyIdle
    /\ CancelIdle
    /\ ArtifactInit

NextArtifact ==
    \/ Tick /\ UNCHANGED <<loaderVars, searchVars, irisVars, httpVars, crimVars, compVars, simplifyVars, cancelVars>>
    \/ \E w \in DOMAIN writers :
          WriteArtifact(w) /\ UNCHANGED <<loaderVars, searchVars, irisVars, httpVars, crimVars, compVars, simplifyVars, cancelVars>>

SpecArtifact == InitArtifact /\ [][NextArtifact]_vars

\* both requests have written their artifact
BothWritten == \A w \in DOMAIN writers : fileNames[w] # NoName

\* C24: two requests that write their results artifact always write to
\* different file names, so that each artifact is in the results directory,
\* also when both are served within the same second.
C24_ArtifactsNeverCollide ==
    BothWritten =>
        /\ fileNames[1] # fileNames[2]
        /\ \A w \in DOMAIN writers :
               fileNames[w] \in DOMAIN files /\ files[fileNames[w]] = w

\* as the code has it: the names differ exactly when the endpoints, the
\* activity codes or the seconds of the two writes differ
C24_CollideWithinSecond ==
    BothWritten =>
        (fileNames[1] = fileNames[2]
            <=> /\ writers[1] = writers[2]
                /\ fileNames[1][Len(fileNames[1])] = fileNames[2][Len(fileNames[2])])

----------------------------------------------------------------------------
(* C25, C27: the row policy of the business loader                         *)

\* SearchBusinesses has converted the geometry and called the loader
LoaderRan ==
    searchOutcome # "none" /\ convertGeoJSONToGeometry(searchGeo).kind = "ok"

\* the rows with at least 20 fields, the requested activity code and a name
Candidates ==
    {i \in 1..Len(businessFile) :
        /\ businessFile[i].len >= 20
        /\ businessFile[i].naf = searchNaf
        /\ businessFile[i].name # ""}

\* the loaded records built from row i
RecordsOf(i) ==
    {j \in 1..Len(loadedBusinesses) : loadedBusinesses[j].line = i}

\* C25: a row in which a numeric field fails to parse is still loaded, the
\* numeric set to 0: every row with the requested activity code and a name
\* yields a Business record, with longitude or latitude 0 where the field is
\* unparseable, and no row makes the load fail.
C25_UnparseableNumericIsZero ==
    LoaderRan =>
        /\ searchOutcome = "ok"
        /\ \A i \in Candidates :
              \E j \in RecordsOf(i) :
                 /\ ~businessFile[i].lngOk => loadedBusinesses[j].Longitude = 0
                 /\ ~businessFile[i].latOk => loadedBusinesses[j].Latitude = 0

\* as the code has it: when the load succeeds, a row with an unparseable
\* longitude or latitude yields no record, and the other candidates one each
C25_UnparseableCoordinateDropped ==
    (LoaderRan /\ searchOutcome = "ok") =>
        \A i \in Candidates :
           IF businessFile[i].lngOk /\ businessFile[i].latOk
           THEN Cardinality(RecordsOf(i)) = 1
           ELSE RecordsOf(i) = {}

\* C27: the business loader never reads a column outside the row: for every
\* row length, loading either skips the row or builds a record, and the
\* search does not end in an out-of-range access.
C27_NoColumnOutsideRow ==
    LoaderRan => searchOutcome # "panic"

\* as the code has it: the load panics exactly when a candidate row with
\* parseable coordinates has 20 fields, at record[20] of the address
C27_PanicAtTwentyFields ==
    LoaderRan =>
        (searchOutcome = "panic" <=>
            \E i \in Candidates :
               /\ businessFile[i].len = 20
               /\ businessFile[i].lngOk
               /\ businessFile[i].latOk)

----------------------------------------------------------------------------
(* Specification of the zone pass with the scheduling of the goroutines    *)

\* the zone pass of lines 610-656 does not read the commune and special-zone
\* files: one of each
InitZonePass ==
    /\ InitIris
    /\ communeFile = CHOOSE f \in CommuneFiles : TRUE
    /\ qpFile = CHOOSE f \in QPFiles : TRUE

WorkerOf(i) ==
    /\ i \in DOMAIN workerPc
    /\ Worker(i)
    /\ UNCHANGED <<loaderVars, searchVars, httpVars, crimVars, compVars, simplifyVars, cancelVars, artifactVars>>

Closer ==
    CloseResults /\ UNCHANGED <<loaderVars, searchVars, httpVars, crimVars, compVars, simplifyVars, cancelVars, artifactVars>>

Reducer ==
    Reduce /\ UNCHANGED <<loaderVars, searchVars, httpVars, crimVars, compVars, simplifyVars, cancelVars, artifactVars>>

NextZonePass ==
    \/ StartIris /\ UNCHANGED <<loaderVars, searchVars, httpVars, crimVars, compVars, simplifyVars, cancelVars, artifactVars>>
    \/ \E i \in 1..Len(irisData) : WorkerOf(i)
    \/ Closer
    \/ Reducer

\* the step of goroutine i, seen at its position
WorkerRuns(i) ==
    /\ irisPc = "reduce"
    /\ i \in DOMAIN workerPc
    /\ workerPc[i] = "ready"
    /\ workerPc' = [workerPc EXCEPT ![i] = "done"]

\* the step of the loop of line 650, seen at the channel
ReducerTakes ==
    /\ irisPc = "reduce"
    /\ results # <<>>
    /\ results' = Tail(results)

\* the Go scheduler runs every goroutine that can run: the zone goroutines,
\* the closer and the caller in its loop over the channel
SpecZonePass ==
    /\ InitZonePass
    /\ [][NextZonePass]_vars
    /\ \A i \in 1..MaxZones : WF_workerPc(WorkerRuns(i))
    /\ WF_vars(Closer)
    /\ WF_results(ReducerTakes)

\* the goroutines that have sent a result
Emitted ==
    {i \in DOMAIN workerPc :
        workerPc[i] = "done" /\ FLess(Zero, inclusionPercentage[i])}

\* the channel is closed and empty: the loop of line 650 ends
Drained == irisPc = "reduce" /\ resultsClosed /\ results = <<>>

\* C26: for every number of loaded zones, zero included, no send finds the
\* channel full (it never holds more than its len(irisData) places), the
\* channel is closed only after every worker has finished, stays closed and
\* receives nothing afterwards, every emitted result is in the channel or
\* was consumed by the reducer, once each, and the reducer loop eventually
\* ends with all of them consumed.
C26_ZonePassTerminates ==
    /\ [](irisPc = "reduce" =>
            /\ Len(results) <= Len(irisData)
            /\ Len(results) + intersectingZones = Cardinality(Emitted)
            /\ \A i \in Emitted :
                  Cardinality({j \in 1..Len(results) : results[j].iris = i}) <= 1
            /\ resultsClosed => \A i \in DOMAIN workerPc : workerPc[i] = "done")
    /\ [][resultsClosed =>
             (resultsClosed' /\ Len(results') <= Len(results))]_vars
    /\ (irisPc = "reduce") ~>
           (Drained /\ intersectingZones = Cardinality(Emitted)
                    /\ \A i \in DOMAIN workerPc : workerPc[i] = "done")

\* two zones sent a result each, both were consumed and the loop has ended
C26_Witness ==
    /\ Drained
    /\ Len(irisData) = 2
    /\ Cardinality(Emitted) = 2
    /\ intersectingZones = 2

\* no zone is loaded: the channel is closed with no goroutine started
C26_WitnessNoZone ==
    /\ Drained
    /\ Len(irisData) = 0
    /\ intersectingZones = 0

----------------------------------------------------------------------------
(* C28: a commune whose polygon does not parse                             *)

\* the intersecting commune codes whose commune record was loaded with a
\* polygon that parsePolygon could not parse (a nil Polygon)
UnparsedCommunes ==
    {c \in intersectingCommunes :
        \E i \in 1..Len(communeFile) :
            /\ communeFile[i].code = c
            /\ communeFile[i].len >= 10
            /\ communeFile[i].Polygon.kind # "ok"}

\* GetIrisData has ended after a zone pass that found intersecting zones
CommunesProcessed ==
    irisPc \in {"done", "panic"} /\ intersectingZones > 0

\* C28: a commune record whose polygon cannot be parsed does not abort the
\* aggregation: when such a commune is among the intersecting commune codes
\* it is left out of the lists and the request completes with a response.
C28_UnparsedCommuneLeftOut ==
    (CommunesProcessed /\ UnparsedCommunes # {}) =>
        /\ irisPc = "done"
        /\ response.present
        /\ \A c \in UnparsedCommunes :
              \A j \in 1..Len(response.Communes) :
                 response.Communes[j].CommuneCode # c

\* as the code has it: the request panics at the nil polygon (line 410,
\* called at line 677) and no response is returned
C28_UnparsedCommunePanics ==
    (CommunesProcessed /\ UnparsedCommunes # {}) =>
        /\ irisPc = "panic"
        /\ ~response.present
        /\ irisStatus = 0

----------------------------------------------------------------------------
(* C29: a coordinate with fewer than two numbers                           *)

\* a Polygon whose outer ring holds a coordinate of fewer than two numbers
ShortCoordinate(geo) ==
    /\ geo.type = "Polygon"
    /\ Len(geo.coordinates) > 0
    /\ \E i \in 1..Len(geo.coordinates[1]) : Len(geo.coordinates[1][i]) < 2

\* a well-formed POST whose geometry (the first feature's for a
\* FeatureCollection) is such a polygon
ShortCoordinateRequest(req) ==
    /\ req.method = "POST"
    /\ req.body = "valid"
    /\ req.endpoint # "/iris-data" => req.nafCode # ""
    /\ \/ req.type = "Feature" /\ ShortCoordinate(req.geometry)
       \/ /\ req.type = "FeatureCollection"
          /\ Len(req.features) > 0
          /\ ShortCoordinate(req.features[1])

\* C29: a Polygon request whose outer ring contains a coordinate with fewer
\* than two numbers is answered with an error status and never crashes the
\* handler.
C29_ShortCoordinateRejected ==
    (httpPc # "ready" /\ ShortCoordinateRequest(request)) =>
        /\ httpPc = "answered"
        /\ httpStatus \in {400, 500}

\* as the code has it: the handler panics in the simplifier before any call
\* of the service and writes no status
C29_ShortCoordinatePanics ==
    (httpPc # "ready" /\ ShortCoordinateRequest(request)) =>
        /\ httpPc = "panic"
        /\ httpStatus = 0
        /\ ~invoked

----------------------------------------------------------------------------
(* C30: the department key of a commune code with leading zeros            *)

\* the department's code (the first two characters of the INSEE code) with
\* its leading zeros stripped, as loadDepartmentCrimes keys it
StrippedDepartment(code) == TrimLeft(SubSeq(code, 1, 2), "0")

LeadingZero == {i \in 1..Len(crimCommunes) : Head(crimCommunes[i].CommuneCode) = "0"}

\* C30: for a commune whose INSEE code starts with a zero the department key
\* used by the reducer is the department's code with leading zeros stripped
\* ("1" for "01001"), the key under which the department crime table stores
\* it, and department extraction reads past the end of no commune code.
C30_StrippedDepartmentKey ==
    (crimResponse.present /\ LeadingZero # {}) =>
        /\ crimResponse.kind = "ok"
        /\ \A i \in LeadingZero :
              StrippedDepartment(crimCommunes[i].CommuneCode) \in departmentData

\* as the code has it: the key is the first two characters of the stripped
\* commune code ("10" for "01001"), and the call panics exactly when a
\* stripped code has fewer than two characters
C30_KeyOfStrippedCommune ==
    (crimResponse.present /\ LeadingZero # {}) =>
        IF \E i \in 1..Len(crimCommunes) :
              Len(TrimLeft(crimCommunes[i].CommuneCode, "0")) < 2
        THEN crimResponse.kind = "panic"
        ELSE /\ crimResponse.kind = "ok"
             /\ \A i \in LeadingZero :
                   LET stripped == TrimLeft(crimCommunes[i].CommuneCode, "0")
                   IN  /\ <<stripped[1], stripped[2]>> \in departmentData
                       /\ StrippedDepartment(crimCommunes[i].CommuneCode)
                              \notin departmentData

============================================================================
